---- MODULE Spec2Model ----
(***************************************************************************)
(* Model of the magnetic building toy: Ball / Shaft link bookkeeping, the  *)
(* MagneticBuilder click handlers and the ConstraintSolver.                *)
(*                                                                         *)
(* Geometry is fixed point: one unit is 0.00001 scene units, so            *)
(* BALL_RADIUS 0.5 is 50000 and POSITION_TOLERANCE 0.001 is 100.  Balls    *)
(* live in a plane (the z coordinate of every vector is 0); a vector is a  *)
(* pair <<x, y>>.  Unit vectors are scaled by DIR_ONE.                     *)
(*                                                                         *)
(* The solver loop is modelled one pass per step (pc = "solving"); the     *)
(* code before the loop belongs to the step that starts the call and the   *)
(* code after it (createPlan's return, validatePlan, applyPlan and the     *)
(* rest of handleBallClick) to the step that ends it.                      *)
(***************************************************************************)
EXTENDS Integers, Sequences, FiniteSets, TLC

\* ---------------------------------------------------------------- bounds
MaxBalls == 3
MaxShafts == 2
MaxSceneShafts == 3
\* shafts constructed in a run driven by the mouse
MaxDragShafts == 1
\* how far from the origin a drag can take a ball, per coordinate
MaxReach == 400000

\* ------------------------------------------------------ program constants
BALL_RADIUS == 50000
DRAG_THRESHOLD == 5
CUBE_SIDE == 200000
SMALL_SHAFT_LENGTH == CUBE_SIDE
LARGE_SHAFT_LENGTH == 282843
SNAP_TOLERANCE == 10000
POSITION_TOLERANCE == 100
MAX_ITERATIONS == 500
INFINITY == 2147483647
COINCIDENT_DIST == 10
RELAXATION_DIV == 2
DIR_ONE == 1000
LENGTH_PRESCALE == 32

NULL == 0
BallIds == 1..MaxBalls
ShaftIds == 1..(IF MaxSceneShafts > MaxShafts THEN MaxSceneShafts ELSE MaxShafts)
ShaftSizes == {"small", "large"}

\* ------------------------------------------------------------ vector math
Abs(n) == IF n < 0 THEN -n ELSE n

Max(a, b) == IF a > b THEN a ELSE b

\* a / b rounded to the nearest integer (b > 0)
DivR(a, b) == (2 * a + b) \div (2 * b)

\* Newton's iteration from above; a function, so that every step works on
\* the value of the step before
SqrtIter[n \in Nat, x \in Nat] ==
    LET y == (x + n \div x) \div 2
    IN  IF y >= x THEN x ELSE SqrtIter[n, y]

\* floor of the square root
ISqrt(n) == IF n < 2 THEN n ELSE SqrtIter[n, 46340]

SubVectors(a, b) == <<a[1] - b[1], a[2] - b[2]>>

AddVectors(a, b) == <<a[1] + b[1], a[2] + b[2]>>

\* THREE.Vector3.length(): exact along an axis, otherwise the square root
\* is taken of the components divided by LENGTH_PRESCALE
Length(v) ==
    IF v[2] = 0 THEN Abs(v[1])
    ELSE IF v[1] = 0 THEN Abs(v[2])
    ELSE LENGTH_PRESCALE *
         ISqrt((Abs(v[1]) \div LENGTH_PRESCALE) * (Abs(v[1]) \div LENGTH_PRESCALE)
             + (Abs(v[2]) \div LENGTH_PRESCALE) * (Abs(v[2]) \div LENGTH_PRESCALE))

DistanceTo(a, b) == Length(SubVectors(b, a))

\* THREE.Vector3.divideScalar, the result scaled by DIR_ONE
DivideScalar(v, s) == <<DivR(v[1] * DIR_ONE, s), DivR(v[2] * DIR_ONE, s)>>

\* THREE.Vector3.normalize(): divideScalar(length() || 1), so the zero
\* vector stays the zero vector (len is bound to the length's value)
Normalize(v) ==
    CHOOSE u \in {DivideScalar(v, IF len = 0 THEN 1 ELSE len) : len \in {Length(v)}} : TRUE

\* v.multiplyScalar(s) for a vector v scaled by DIR_ONE
MultiplyScalar(dir, s) == <<DivR(dir[1] * s, DIR_ONE), DivR(dir[2] * s, DIR_ONE)>>

ShaftLength(sz) == IF sz = "small" THEN SMALL_SHAFT_LENGTH ELSE LARGE_SHAFT_LENGTH

\* ------------------------------------------------------------ inputs
\* positions handed to addBall: the button and the start-up call use the
\* first one, deserialize hands over any saved position
AddPositions == {<<0, 50000>>, <<312800, 50000>>}

\* directions of the clicked point seen from the ball centre
ClickDirections == {<<0, DIR_ONE>>}

\* directions the random nudge for coincident balls can take
NudgeDirections == {<<DIR_ONE, 0>>, <<0, DIR_ONE>>}

\* ------------------------------------------------------------------ state
VARIABLES
    numBalls,         \* Ball objects constructed so far (their identities are 1..numBalls)
    numShafts,        \* Shaft objects constructed so far
    balls,            \* MagneticBuilder.balls
    shafts,           \* MagneticBuilder.shafts
    position,         \* Ball.getPosition() of every ball
    connectedShafts,  \* Ball.connectedShafts of every ball
    size,             \* Shaft.size
    startBall,        \* Shaft.startBall (NULL when unset)
    endBall,          \* Shaft.endBall (NULL when unset)
    startDirection,   \* Shaft.startDirection
    pendingShaft,     \* MagneticBuilder.pendingShaft
    pendingBall,      \* MagneticBuilder.pendingBall
    isDeleteMode,     \* MagneticBuilder.isDeleteMode
    locked,           \* Ball.locked of every ball
    isDragging,       \* MagneticBuilder.isDragging
    draggedBall,      \* MagneticBuilder.draggedBall (NULL when unset)
    dragStartPositions, \* MagneticBuilder.dragStartPositions: ball -> position at mouse-down
    justEndedDrag,    \* MagneticBuilder.justEndedDrag
    pc,               \* "idle", or where a running solveConstraints call is
    targetBall,       \* the targetBall argument of the running call
    allBalls,         \* getAllConnectedBalls' result, in insertion order
    ballStates,       \* plan.ballStates
    constraints,      \* the list collectConstraints returned
    iter,             \* solve's loop counter
    maxError,         \* solve's maxError
    converged,        \* solve's result.converged
    preAttempt        \* history: the graph as it was when the running call was entered

builderVars == <<numBalls, numShafts, balls, shafts, pendingShaft, pendingBall, isDeleteMode>>
objectVars == <<position, connectedShafts, size, startBall, endBall, startDirection, locked>>
solverVars == <<pc, targetBall, allBalls, ballStates, constraints, iter, maxError, converged, preAttempt>>
mouseVars == <<isDragging, draggedBall, dragStartPositions, justEndedDrag>>
vars == <<builderVars, objectVars, solverVars, mouseVars>>

\* ------------------------------------------------------------- sequences
SeqToSet(q) == {q[i] : i \in DOMAIN q}

Contains(q, x) == \E i \in DOMAIN q : q[i] = x

\* Array.indexOf: the first index of x, 0 when absent
IndexOf(q, x) == IF Contains(q, x) THEN CHOOSE i \in DOMAIN q : q[i] = x /\ \A j \in 1..(i - 1) : q[j] # x ELSE 0

\* Array.splice(index, 1)
RemoveAt(q, i) == [j \in 1..(Len(q) - 1) |-> IF j < i THEN q[j] ELSE q[j + 1]]

\* indexOf followed by splice when the element was found
RemoveFirst(q, x) == IF IndexOf(q, x) > 0 THEN RemoveAt(q, IndexOf(q, x)) ELSE q

\* ------------------------------------------------------------ Ball, Shaft
\* Ball.addConnectedShaft on the map of all balls' lists
AddConnectedShaft(cs, b, s) == IF Contains(cs[b], s) THEN cs ELSE [cs EXCEPT ![b] = Append(@, s)]

\* Ball.removeConnectedShaft on the map of all balls' lists
RemoveConnectedShaft(cs, b, s) == [cs EXCEPT ![b] = RemoveFirst(@, s)]

\* Shaft.isFullyConnected
IsFullyConnected(s) == startBall[s] # NULL /\ endBall[s] # NULL

\* Shaft.getLength
GetLength(s) == ShaftLength(size[s])

\* the centre distance a shaft asks for: length + BALL_RADIUS * 2
RequiredDistance(s) == GetLength(s) + BALL_RADIUS * 2

\* the ball one shaft of b's list contributes to Ball.getConnectedBalls
ConnectedBallVia(b, s) ==
    IF startBall[s] = b /\ endBall[s] # NULL THEN <<endBall[s]>>
    ELSE IF endBall[s] = b /\ startBall[s] # NULL THEN <<startBall[s]>>
    ELSE <<>>

RECURSIVE ConnectedBallsFrom(_, _)
ConnectedBallsFrom(b, i) ==
    IF i > Len(connectedShafts[b]) THEN <<>>
    ELSE ConnectedBallVia(b, connectedShafts[b][i]) \o ConnectedBallsFrom(b, i + 1)

\* variant: only the shafts that start at b are followed
GetConnectedBallsStartOnly(b) ==
    LET via(i) == IF startBall[connectedShafts[b][i]] = b /\ endBall[connectedShafts[b][i]] # NULL
                  THEN <<endBall[connectedShafts[b][i]]>> ELSE <<>>
        F[i \in 1..(Len(connectedShafts[b]) + 1)] ==
            IF i > Len(connectedShafts[b]) THEN <<>> ELSE via(i) \o F[i + 1]
    IN  F[1]

\* Ball.getConnectedBalls
GetConnectedBalls(b) == ConnectedBallsFrom(b, 1)

\* variant: the snap accepts twice the tolerance
CanSnapToWide(s, target) ==
    /\ startBall[s] # NULL
    /\ Abs(DistanceTo(position[startBall[s]], position[target]) - (GetLength(s) + BALL_RADIUS * 2))
         < SNAP_TOLERANCE * 2

\* Shaft.canSnapTo
CanSnapTo(s, target) ==
    /\ startBall[s] # NULL
    /\ Abs(DistanceTo(position[startBall[s]], position[target]) - (GetLength(s) + BALL_RADIUS * 2)) < SNAP_TOLERANCE

\* Shaft.getFreeEndPosition: the end magnet of a shaft attached at its start
\* only sits BALL_RADIUS + length along startDirection; <<>> stands for null.
\* With the zero startDirection (set by solveConstraints for coincident
\* balls) update() leaves the mesh on the start ball, unrotated, and the
\* magnet half the length above it.
GetFreeEndPosition(s) ==
    IF IsFullyConnected(s) \/ startBall[s] = NULL THEN <<>>
    ELSE IF startDirection[s] = <<0, 0>>
    THEN AddVectors(position[startBall[s]], <<0, DivR(GetLength(s), 2)>>)
    ELSE AddVectors(position[startBall[s]], MultiplyScalar(startDirection[s], BALL_RADIUS + GetLength(s)))

\* ------------------------------------------------------- ConstraintSolver
RECURSIVE Traverse(_, _)
\* the while loop of getAllConnectedBalls: queue.shift(), skip a visited
\* ball, else add it and push its neighbours that are not visited yet
Traverse(queue, visited) ==
    IF queue = <<>> THEN visited
    ELSE LET ball == Head(queue)
             added == Append(visited, ball)
         IN  IF Contains(visited, ball) THEN Traverse(Tail(queue), visited)
             ELSE Traverse(Tail(queue) \o SelectSeq(GetConnectedBalls(ball), LAMBDA c : ~Contains(added, c)), added)

\* ConstraintSolver.getAllConnectedBalls: the Set, in insertion order
GetAllConnectedBalls(sourceBall, target) == Traverse(<<sourceBall, target>>, <<>>)

\* variant: every shaft of the list counts, bound or not
MassCountsAll(b) == 1 + Len(connectedShafts[b])

\* the mass createPlan gives a ball: 1 + its fully connected shafts
Mass(b) == 1 + Cardinality({i \in DOMAIN connectedShafts[b] : IsFullyConnected(connectedShafts[b][i])})

\* the ballStates map createPlan builds before it calls solve
InitialBallStates(all) ==
    [b \in SeqToSet(all) |-> [originalPosition |-> position[b], newPosition |-> position[b], mass |-> Mass(b)]]

RECURSIVE ShaftsOf(_, _)
\* the shafts the two nested loops over balls and their lists go through
ShaftsOf(all, i) == IF i > Len(all) THEN <<>> ELSE connectedShafts[all[i]] \o ShaftsOf(all, i + 1)

RECURSIVE ShaftConstraintsNoDedupe(_, _, _)
\* variant: seenShafts is never consulted
ShaftConstraintsNoDedupe(list, i, seenShafts) ==
    IF i > Len(list) THEN <<>>
    ELSE IF ~IsFullyConnected(list[i]) THEN ShaftConstraintsNoDedupe(list, i + 1, seenShafts)
    ELSE <<[ball1 |-> startBall[list[i]], ball2 |-> endBall[list[i]],
            distance |-> GetLength(list[i]) + BALL_RADIUS * 2, shaft |-> list[i]]>>
         \o ShaftConstraintsNoDedupe(list, i + 1, seenShafts)

RECURSIVE ShaftConstraints(_, _, _)
ShaftConstraints(list, i, seenShafts) ==
    IF i > Len(list) THEN <<>>
    ELSE IF list[i] \in seenShafts \/ ~IsFullyConnected(list[i]) THEN ShaftConstraints(list, i + 1, seenShafts)
    ELSE <<[ball1 |-> startBall[list[i]], ball2 |-> endBall[list[i]],
            distance |-> GetLength(list[i]) + BALL_RADIUS * 2, shaft |-> list[i]]>>
         \o ShaftConstraints(list, i + 1, seenShafts \cup {list[i]})

\* ConstraintSolver.collectConstraints
CollectConstraints(all, sourceBall, target, requiredDistance) ==
    Append(ShaftConstraints(ShaftsOf(all, 1), 1, {}),
           [ball1 |-> sourceBall, ball2 |-> target, distance |-> requiredDistance, shaft |-> NULL])

\* variant: ball1's weight is taken from its own mass
Correction1OwnMass(error, m1, m2) == DivR(error * m1, RELAXATION_DIV * (m1 + m2))

\* the two position corrections of one constraint, error * relaxation * w
\* with w1 = (1/m1) / (1/m1 + 1/m2) = m2 / (m1 + m2) and w2 = m1 / (m1 + m2)
Correction1(error, m1, m2) == DivR(error * m2, RELAXATION_DIV * (m1 + m2))

Correction2(error, m1, m2) == DivR(error * m1, RELAXATION_DIV * (m1 + m2))

\* variant: every nonzero error is corrected, however small
CorrectPairAnyError(acc, c, currentDist, delta) ==
    LET state1 == acc.states[c.ball1]
        state2 == acc.states[c.ball2]
        error == currentDist - c.distance
        moved1 == [acc.states EXCEPT ![c.ball1].newPosition =
                      AddVectors(@, MultiplyScalar(delta, Correction1(error, state1.mass, state2.mass)))]
        moved2 == [moved1 EXCEPT ![c.ball2].newPosition =
                      SubVectors(@, MultiplyScalar(delta, Correction2(error, state1.mass, state2.mass)))]
    IN  [states |-> IF Abs(error) > 0 THEN moved2 ELSE acc.states,
         maxError |-> Max(acc.maxError, Abs(error)),
         nudged |-> acc.nudged \/ currentDist < COINCIDENT_DIST]

\* the body of solve's inner loop from the error on, for the measured
\* distance and the direction delta
CorrectPair(acc, c, currentDist, delta) ==
    LET state1 == acc.states[c.ball1]
        state2 == acc.states[c.ball2]
        error == currentDist - c.distance
        moved1 == [acc.states EXCEPT ![c.ball1].newPosition =
                      AddVectors(@, MultiplyScalar(delta, Correction1(error, state1.mass, state2.mass)))]
        moved2 == [moved1 EXCEPT ![c.ball2].newPosition =
                      SubVectors(@, MultiplyScalar(delta, Correction2(error, state1.mass, state2.mass)))]
    IN  [states |-> IF Abs(error) > POSITION_TOLERANCE THEN moved2 ELSE acc.states,
         maxError |-> Max(acc.maxError, Abs(error)),
         nudged |-> acc.nudged \/ currentDist < COINCIDENT_DIST]

\* variant: the random direction is drawn for every pair that is closer than
\* the constraint requires
ApplyConstraintNudgesClosePairs(acc, c, nudge) ==
    IF c.ball1 \notin DOMAIN acc.states \/ c.ball2 \notin DOMAIN acc.states THEN acc
    ELSE LET diff == SubVectors(acc.states[c.ball2].newPosition, acc.states[c.ball1].newPosition)
         IN  CHOOSE after \in
                 {CorrectPair(acc, c, currentDist, delta) :
                      currentDist \in {Length(diff)},
                      delta \in {IF Length(diff) < c.distance THEN nudge ELSE Normalize(diff)}} : TRUE

\* the body of solve's inner loop for one constraint; acc carries the ball
\* states, the pass's maxError and whether the random nudge was drawn
\* (currentDist and delta are bound to their values)
ApplyConstraint(acc, c, nudge) ==
    IF c.ball1 \notin DOMAIN acc.states \/ c.ball2 \notin DOMAIN acc.states THEN acc
    ELSE LET diff == SubVectors(acc.states[c.ball2].newPosition, acc.states[c.ball1].newPosition)
         IN  CHOOSE after \in
                 {CorrectPair(acc, c, currentDist, delta) :
                      currentDist \in {Length(diff)},
                      delta \in {IF Length(diff) < COINCIDENT_DIST THEN nudge ELSE Normalize(diff)}} : TRUE

RECURSIVE ApplyConstraints(_, _, _, _)
\* the constraints from the i-th on, in order; each one sees the value the
\* one before it left (next is bound to that value, not to its expression)
ApplyConstraints(acc, cons, i, nudge) ==
    IF i > Len(cons) THEN acc
    ELSE CHOOSE after \in {ApplyConstraints(next, cons, i + 1, nudge) :
                               next \in {ApplyConstraint(acc, cons[i], nudge)}} : TRUE

\* one pass of solve's outer loop: maxError = 0, then every constraint
Pass(states, cons, nudge) ==
    ApplyConstraints([states |-> states, maxError |-> 0, nudged |-> FALSE], cons, 1, nudge)

RECURSIVE MaxShaftError(_, _, _, _)
\* validatePlan's loop over the plan's balls and their shafts
MaxShaftError(states, list, i, checkedShafts) ==
    IF i > Len(list) THEN 0
    ELSE IF list[i] \in checkedShafts \/ ~IsFullyConnected(list[i]) THEN MaxShaftError(states, list, i + 1, checkedShafts)
    ELSE IF startBall[list[i]] \notin DOMAIN states \/ endBall[list[i]] \notin DOMAIN states
         THEN MaxShaftError(states, list, i + 1, checkedShafts \cup {list[i]})
    ELSE Max(Abs(DistanceTo(states[startBall[list[i]]].newPosition, states[endBall[list[i]]].newPosition)
                 - (GetLength(list[i]) + BALL_RADIUS * 2)),
             MaxShaftError(states, list, i + 1, checkedShafts \cup {list[i]}))

\* variant: both checks use POSITION_TOLERANCE itself
ValidatePlanTight(states, order, newShaft, sourceBall, target) ==
    IF sourceBall \notin DOMAIN states \/ target \notin DOMAIN states
    THEN [valid |-> FALSE, message |-> "Missing ball states", error |-> 0]
    ELSE LET newConnError == Abs(DistanceTo(states[sourceBall].newPosition, states[target].newPosition)
                                 - (GetLength(newShaft) + BALL_RADIUS * 2))
             shaftError == MaxShaftError(states, ShaftsOf(order, 1), 1, {})
         IN  IF newConnError > POSITION_TOLERANCE
             THEN [valid |-> FALSE, message |-> "New connection error", error |-> newConnError]
             ELSE IF shaftError > POSITION_TOLERANCE
             THEN [valid |-> FALSE, message |-> "Constraint violation", error |-> shaftError]
             ELSE [valid |-> TRUE, message |-> "Valid", error |-> 0]

\* ConstraintSolver.validatePlan; order is the plan map's iteration order
ValidatePlan(states, order, newShaft, sourceBall, target) ==
    IF sourceBall \notin DOMAIN states \/ target \notin DOMAIN states
    THEN [valid |-> FALSE, message |-> "Missing ball states", error |-> 0]
    ELSE LET newConnError == Abs(DistanceTo(states[sourceBall].newPosition, states[target].newPosition)
                                 - (GetLength(newShaft) + BALL_RADIUS * 2))
             shaftError == MaxShaftError(states, ShaftsOf(order, 1), 1, {})
         IN  IF newConnError > POSITION_TOLERANCE * 100
             THEN [valid |-> FALSE, message |-> "New connection error", error |-> newConnError]
             ELSE IF shaftError > POSITION_TOLERANCE * 100
             THEN [valid |-> FALSE, message |-> "Constraint violation", error |-> shaftError]
             ELSE [valid |-> TRUE, message |-> "Valid", error |-> 0]

\* variant: only the two balls of the new connection are written
ApplyPlanEndsOnly(states) ==
    [b \in BallIds |->
        IF /\ b \in DOMAIN states
           /\ b \in {pendingBall, targetBall}
           /\ DistanceTo(states[b].originalPosition, states[b].newPosition) > POSITION_TOLERANCE
        THEN states[b].newPosition
        ELSE position[b]]

\* variant: every ball of the plan is written, however little it moved
ApplyPlanWritesAll(states) ==
    [b \in BallIds |-> IF b \in DOMAIN states THEN states[b].newPosition ELSE position[b]]

\* ConstraintSolver.applyPlan: the positions after it ran
ApplyPlan(states) ==
    [b \in BallIds |->
        IF b \in DOMAIN states /\ DistanceTo(states[b].originalPosition, states[b].newPosition) > POSITION_TOLERANCE
        THEN states[b].newPosition
        ELSE position[b]]

\* ---------------------------------------------------------------- actions
NoStates == [b \in {} |-> 0]

\* the fields of the balls and shafts a connection attempt could touch
GraphState ==
    [position |-> position, connectedShafts |-> connectedShafts, startBall |-> startBall,
     endBall |-> endBall, startDirection |-> startDirection]

NoAttempt == <<>>

\* the solver's locals outside a call
SolverIdle ==
    /\ pc' = "idle"
    /\ targetBall' = NULL
    /\ allBalls' = <<>>
    /\ ballStates' = NoStates
    /\ constraints' = <<>>
    /\ iter' = 0
    /\ maxError' = 0
    /\ converged' = FALSE
    /\ preAttempt' = NoAttempt

\* the constructor, then the start-up call app.addBall(new THREE.Vector3(0, 0.5, 0))
NoDrag ==
    /\ isDragging = FALSE
    /\ draggedBall = NULL
    /\ dragStartPositions = <<>>
    /\ justEndedDrag = FALSE

Init ==
    /\ NoDrag
    /\ numBalls = 1
    /\ numShafts = 0
    /\ balls = <<1>>
    /\ shafts = <<>>
    /\ position = [b \in BallIds |-> <<0, 50000>>]
    /\ connectedShafts = [b \in BallIds |-> <<>>]
    /\ size = [s \in ShaftIds |-> "small"]
    /\ startBall = [s \in ShaftIds |-> NULL]
    /\ endBall = [s \in ShaftIds |-> NULL]
    /\ startDirection = [s \in ShaftIds |-> <<0, DIR_ONE>>]
    /\ pendingShaft = NULL
    /\ pendingBall = NULL
    /\ pc = "idle"
    /\ targetBall = NULL
    /\ allBalls = <<>>
    /\ ballStates = NoStates
    /\ constraints = <<>>
    /\ iter = 0
    /\ maxError = 0
    /\ converged = FALSE
    /\ preAttempt = NoAttempt
    /\ isDeleteMode = FALSE
    /\ locked = [b \in BallIds |-> FALSE]

\* MagneticBuilder.addBall
AddBall(p) ==
    /\ pc = "idle"
    /\ numBalls < MaxBalls
    /\ numBalls' = numBalls + 1
    /\ balls' = Append(balls, numBalls + 1)
    /\ position' = [position EXCEPT ![numBalls + 1] = p]
    /\ UNCHANGED <<numShafts, shafts, pendingShaft, pendingBall>>
    /\ UNCHANGED <<connectedShafts, size, startBall, endBall, startDirection>>
    /\ UNCHANGED solverVars
    /\ UNCHANGED isDeleteMode
    /\ UNCHANGED locked

\* handleBallClick with no shaft pending: new Shaft(...), attachToStart
FirstBallClick(ball, direction, selectedShaftSize) ==
    /\ pc = "idle"
    /\ pendingShaft = NULL
    /\ Contains(balls, ball)
    /\ numShafts < MaxShafts
    /\ numShafts' = numShafts + 1
    /\ size' = [size EXCEPT ![numShafts + 1] = selectedShaftSize]
    /\ shafts' = Append(shafts, numShafts + 1)
    /\ startBall' = [startBall EXCEPT ![numShafts + 1] = ball]
    /\ connectedShafts' = AddConnectedShaft(connectedShafts, ball, numShafts + 1)
    /\ startDirection' = [startDirection EXCEPT ![numShafts + 1] = direction]
    /\ pendingShaft' = numShafts + 1
    /\ pendingBall' = ball
    /\ UNCHANGED <<numBalls, balls, position, endBall>>
    /\ UNCHANGED solverVars
    /\ UNCHANGED isDeleteMode
    /\ UNCHANGED locked

\* handleBallClick with a shaft pending, on the pending ball itself
SecondClickSameBall(ball) ==
    /\ pc = "idle"
    /\ pendingShaft # NULL
    /\ Contains(balls, ball)
    /\ ball = pendingBall
    /\ pendingShaft' = NULL
    /\ pendingBall' = NULL
    /\ UNCHANGED <<numBalls, numShafts, balls, shafts>>
    /\ UNCHANGED objectVars
    /\ UNCHANGED solverVars
    /\ UNCHANGED isDeleteMode

\* handleBallClick with a shaft pending, direct snap: attachToEnd
SecondClickSnap(ball) ==
    /\ pc = "idle"
    /\ pendingShaft # NULL
    /\ Contains(balls, ball)
    /\ ball # pendingBall
    /\ CanSnapTo(pendingShaft, ball)
    /\ endBall' = [endBall EXCEPT ![pendingShaft] = ball]
    /\ connectedShafts' = AddConnectedShaft(connectedShafts, ball, pendingShaft)
    /\ pendingShaft' = NULL
    /\ pendingBall' = NULL
    /\ UNCHANGED <<numBalls, numShafts, balls, shafts>>
    /\ UNCHANGED <<position, size, startBall, startDirection>>
    /\ UNCHANGED solverVars
    /\ UNCHANGED isDeleteMode
    /\ UNCHANGED locked

\* handleBallClick with a shaft pending, no snap: solveConstraints is
\* entered and runs up to the first pass of solve
SecondClickSolve(ball) ==
    /\ pc = "idle"
    /\ pendingShaft # NULL
    /\ Contains(balls, ball)
    /\ ball # pendingBall
    /\ ~CanSnapTo(pendingShaft, ball)
    /\ targetBall' = ball
    /\ allBalls' = GetAllConnectedBalls(pendingBall, ball)
    /\ startDirection' = [startDirection EXCEPT ![pendingShaft] =
                             Normalize(SubVectors(position[ball], position[pendingBall]))]
    /\ ballStates' = InitialBallStates(allBalls')
    /\ constraints' = CollectConstraints(allBalls', pendingBall, ball, GetLength(pendingShaft) + BALL_RADIUS * 2)
    /\ iter' = 0
    /\ maxError' = INFINITY
    /\ converged' = FALSE
    /\ preAttempt' = GraphState
    /\ pc' = "solving"
    /\ UNCHANGED <<numBalls, numShafts, balls, shafts, pendingShaft, pendingBall>>
    /\ UNCHANGED <<position, connectedShafts, size, startBall, endBall>>
    /\ UNCHANGED isDeleteMode
    /\ UNCHANGED locked

\* variant: the return after the loop uses the tolerance of the early return
AfterPassStrict(result) ==
    /\ ballStates' = result.states
    /\ maxError' = result.maxError
    /\ IF result.maxError < POSITION_TOLERANCE
       THEN /\ converged' = TRUE
            /\ iter' = iter
            /\ pc' = "solved"
       ELSE IF iter + 1 < MAX_ITERATIONS
       THEN /\ converged' = FALSE
            /\ iter' = iter + 1
            /\ pc' = "solving"
       ELSE /\ converged' = (result.maxError < POSITION_TOLERANCE)
            /\ iter' = iter + 1
            /\ pc' = "solved"

\* variant: the loop has no iteration budget
AfterPassNoBudget(result) ==
    /\ ballStates' = result.states
    /\ maxError' = result.maxError
    /\ IF result.maxError < POSITION_TOLERANCE
       THEN /\ converged' = TRUE
            /\ iter' = iter
            /\ pc' = "solved"
       ELSE /\ converged' = FALSE
            /\ iter' = IF iter + 1 < MAX_ITERATIONS THEN iter + 1 ELSE iter
            /\ pc' = "solving"

\* what one pass leaves behind: the early return, the next iteration, or
\* the return after the loop
AfterPass(result) ==
    /\ ballStates' = result.states
    /\ maxError' = result.maxError
    /\ IF result.maxError < POSITION_TOLERANCE
       THEN /\ converged' = TRUE
            /\ iter' = iter
            /\ pc' = "solved"
       ELSE IF iter + 1 < MAX_ITERATIONS
       THEN /\ converged' = FALSE
            /\ iter' = iter + 1
            /\ pc' = "solving"
       ELSE /\ converged' = (result.maxError < POSITION_TOLERANCE * 100)
            /\ iter' = iter + 1
            /\ pc' = "solved"

\* one iteration of solve's for loop
SolvePass ==
    /\ pc = "solving"
    /\ iter < MAX_ITERATIONS
    /\ \E first \in {Pass(ballStates, constraints, <<DIR_ONE, 0>>)} :
          IF first.nudged
          THEN \E nudge \in NudgeDirections : \E drawn \in {Pass(ballStates, constraints, nudge)} : AfterPass(drawn)
          ELSE AfterPass(first)
    /\ UNCHANGED <<targetBall, allBalls, constraints, preAttempt>>
    /\ UNCHANGED builderVars
    /\ UNCHANGED objectVars

\* variant: the result of createPlan is not looked at, only the validation decides
SolveResultSkipsPlanCheck ==
    LET validation == ValidatePlan(ballStates, allBalls, pendingShaft, pendingBall, targetBall)
    IN  IF ~validation.valid THEN [success |-> FALSE, message |-> validation.message, error |-> validation.error]
        ELSE [success |-> TRUE, message |-> "Connected! Adjusted balls.", error |-> 0]

\* what solveConstraints returns once solve has returned
SolveResult ==
    IF ~converged THEN [success |-> FALSE, message |-> "Cannot satisfy constraints", error |-> maxError]
    ELSE LET validation == ValidatePlan(ballStates, allBalls, pendingShaft, pendingBall, targetBall)
         IN  IF ~validation.valid THEN [success |-> FALSE, message |-> validation.message, error |-> validation.error]
             ELSE [success |-> TRUE, message |-> "Connected! Adjusted balls.", error |-> 0]

\* variant: applyPlan runs before the result is looked at
SolveReturnApplyFirst ==
    /\ pc = "solved"
    /\ position' = ApplyPlan(ballStates)
    /\ IF SolveResult.success
       THEN /\ endBall' = [endBall EXCEPT ![pendingShaft] = targetBall]
            /\ connectedShafts' = AddConnectedShaft(connectedShafts, targetBall, pendingShaft)
            /\ shafts' = shafts
       ELSE /\ shafts' = RemoveFirst(shafts, pendingShaft)
            /\ UNCHANGED <<endBall, connectedShafts>>
    /\ pendingShaft' = NULL
    /\ pendingBall' = NULL
    /\ SolverIdle
    /\ UNCHANGED <<numBalls, numShafts, balls>>
    /\ UNCHANGED <<size, startBall, startDirection>>
    /\ UNCHANGED isDeleteMode
    /\ UNCHANGED locked

\* variant: attachToEnd runs before the result is looked at
SolveReturnAttachFirst ==
    /\ pc = "solved"
    /\ endBall' = [endBall EXCEPT ![pendingShaft] = targetBall]
    /\ connectedShafts' = AddConnectedShaft(connectedShafts, targetBall, pendingShaft)
    /\ IF SolveResult.success
       THEN /\ position' = ApplyPlan(ballStates)
            /\ shafts' = shafts
       ELSE /\ shafts' = RemoveFirst(shafts, pendingShaft)
            /\ UNCHANGED position
    /\ pendingShaft' = NULL
    /\ pendingBall' = NULL
    /\ SolverIdle
    /\ UNCHANGED <<numBalls, numShafts, balls>>
    /\ UNCHANGED <<size, startBall, startDirection>>
    /\ UNCHANGED isDeleteMode
    /\ UNCHANGED locked

\* variant: the failure branch drops every shaft that starts at the pending ball
SolveReturnRemovesStartShafts ==
    /\ pc = "solved"
    /\ IF SolveResult.success
       THEN /\ position' = ApplyPlan(ballStates)
            /\ endBall' = [endBall EXCEPT ![pendingShaft] = targetBall]
            /\ connectedShafts' = AddConnectedShaft(connectedShafts, targetBall, pendingShaft)
            /\ shafts' = shafts
       ELSE /\ shafts' = SelectSeq(shafts, LAMBDA s : startBall[s] # pendingBall)
            /\ UNCHANGED <<position, endBall, connectedShafts>>
    /\ pendingShaft' = NULL
    /\ pendingBall' = NULL
    /\ SolverIdle
    /\ UNCHANGED <<numBalls, numShafts, balls>>
    /\ UNCHANGED <<size, startBall, startDirection>>
    /\ UNCHANGED isDeleteMode
    /\ UNCHANGED locked

\* the rest of solveConstraints (createPlan's return, validatePlan,
\* applyPlan) and of handleBallClick (attachToEnd, or the shaft removed)
SolveReturn ==
    /\ pc = "solved"
    /\ IF SolveResult.success
       THEN /\ position' = ApplyPlan(ballStates)
            /\ endBall' = [endBall EXCEPT ![pendingShaft] = targetBall]
            /\ connectedShafts' = AddConnectedShaft(connectedShafts, targetBall, pendingShaft)
            /\ shafts' = shafts
       ELSE /\ shafts' = RemoveFirst(shafts, pendingShaft)
            /\ UNCHANGED <<position, endBall, connectedShafts>>
    /\ pendingShaft' = NULL
    /\ pendingBall' = NULL
    /\ SolverIdle
    /\ UNCHANGED <<numBalls, numShafts, balls>>
    /\ UNCHANGED <<size, startBall, startDirection>>
    /\ UNCHANGED isDeleteMode
    /\ UNCHANGED locked

\* variant: the ball's centre is put on the magnet
ShaftEndClickAtMagnet(shaft) ==
    /\ pc = "idle"
    /\ Contains(shafts, shaft)
    /\ ~IsFullyConnected(shaft)
    /\ GetFreeEndPosition(shaft) # <<>>
    /\ startBall[shaft] # NULL
    /\ numBalls < MaxBalls
    /\ numBalls' = numBalls + 1
    /\ balls' = Append(balls, numBalls + 1)
    /\ position' = [position EXCEPT ![numBalls + 1] = GetFreeEndPosition(shaft)]
    /\ endBall' = [endBall EXCEPT ![shaft] = numBalls + 1]
    /\ connectedShafts' = AddConnectedShaft(connectedShafts, numBalls + 1, shaft)
    /\ pendingShaft' = NULL
    /\ pendingBall' = NULL
    /\ UNCHANGED <<numShafts, shafts, isDeleteMode>>
    /\ UNCHANGED <<size, startBall, startDirection, locked>>
    /\ UNCHANGED solverVars

\* variant: the pending state is left as it was
ShaftEndClickKeepsPending(shaft) ==
    /\ pc = "idle"
    /\ Contains(shafts, shaft)
    /\ ~IsFullyConnected(shaft)
    /\ GetFreeEndPosition(shaft) # <<>>
    /\ startBall[shaft] # NULL
    /\ numBalls < MaxBalls
    /\ LET magnetPosition == GetFreeEndPosition(shaft)
           direction == Normalize(SubVectors(magnetPosition, position[startBall[shaft]]))
           ballPosition == AddVectors(magnetPosition, MultiplyScalar(direction, BALL_RADIUS))
       IN  /\ numBalls' = numBalls + 1
           /\ balls' = Append(balls, numBalls + 1)
           /\ position' = [position EXCEPT ![numBalls + 1] = ballPosition]
           /\ endBall' = [endBall EXCEPT ![shaft] = numBalls + 1]
           /\ connectedShafts' = AddConnectedShaft(connectedShafts, numBalls + 1, shaft)
    /\ UNCHANGED <<pendingShaft, pendingBall>>
    /\ UNCHANGED <<numShafts, shafts>>
    /\ UNCHANGED <<size, startBall, startDirection>>
    /\ UNCHANGED solverVars
    /\ UNCHANGED isDeleteMode
    /\ UNCHANGED locked

\* handleShaftEndClick on a shaft of the list that is not fully connected
ShaftEndClick(shaft) ==
    /\ pc = "idle"
    /\ Contains(shafts, shaft)
    /\ ~IsFullyConnected(shaft)
    /\ GetFreeEndPosition(shaft) # <<>>
    /\ startBall[shaft] # NULL
    /\ numBalls < MaxBalls
    /\ LET magnetPosition == GetFreeEndPosition(shaft)
           direction == Normalize(SubVectors(magnetPosition, position[startBall[shaft]]))
           ballPosition == AddVectors(magnetPosition, MultiplyScalar(direction, BALL_RADIUS))
       IN  /\ numBalls' = numBalls + 1
           /\ balls' = Append(balls, numBalls + 1)
           /\ position' = [position EXCEPT ![numBalls + 1] = ballPosition]
           /\ endBall' = [endBall EXCEPT ![shaft] = numBalls + 1]
           /\ connectedShafts' = AddConnectedShaft(connectedShafts, numBalls + 1, shaft)
    /\ pendingShaft' = NULL
    /\ pendingBall' = NULL
    /\ UNCHANGED <<numShafts, shafts>>
    /\ UNCHANGED <<size, startBall, startDirection>>
    /\ UNCHANGED solverVars
    /\ UNCHANGED isDeleteMode
    /\ UNCHANGED locked

Next ==
    \/ \E p \in AddPositions : AddBall(p) /\ UNCHANGED mouseVars
    \/ \E ball \in BallIds, direction \in ClickDirections, selectedShaftSize \in ShaftSizes :
          FirstBallClick(ball, direction, selectedShaftSize) /\ UNCHANGED mouseVars
    \/ \E ball \in BallIds : SecondClickSameBall(ball) /\ UNCHANGED mouseVars
    \/ \E ball \in BallIds : SecondClickSnap(ball) /\ UNCHANGED mouseVars
    \/ \E ball \in BallIds : SecondClickSolve(ball) /\ UNCHANGED mouseVars
    \/ SolvePass /\ UNCHANGED mouseVars
    \/ SolveReturn /\ UNCHANGED mouseVars
    \/ \E shaft \in ShaftIds : ShaftEndClick(shaft) /\ UNCHANGED mouseVars

Spec == Init /\ [][Next]_vars

\* the calls end: every enabled pass and every return is eventually taken
FairSpec == Spec /\ WF_vars(SolvePass /\ UNCHANGED mouseVars) /\ WF_vars(SolveReturn /\ UNCHANGED mouseVars)

\* ------------------------------------------------- a structure set up directly
\* bound shafts of a structure: size, start ball, end ball
ShaftUp == [size |-> "small", startBall |-> 1, endBall |-> 2]
ShaftSide == [size |-> "small", startBall |-> 1, endBall |-> 3]

\* structures of three balls as the tests set them up: ball 1 bound to ball
\* 2 above it and to ball 3 at a right angle, on the opposite side, or at a
\* slant; and ball 1 bound to a ball 2 that a direct snap left 0.05 too far,
\* with ball 3 unbound at the required distance of a small shaft from ball 2
Scenes ==
    { [positions |-> <<<<0, 50000>>, <<0, 350000>>, <<300000, 50000>>>>, bound |-> <<ShaftUp, ShaftSide>>],
      [positions |-> <<<<0, 50000>>, <<0, 350000>>, <<0, -250000>>>>, bound |-> <<ShaftUp, ShaftSide>>],
      [positions |-> <<<<0, 50000>>, <<0, 350000>>, <<180000, 290000>>>>, bound |-> <<ShaftUp, ShaftSide>>],
      [positions |-> <<<<0, 50000>>, <<0, 355000>>, <<300000, 355000>>>>, bound |-> <<ShaftUp>>] }

\* the connected-shaft lists after attachToStart and attachToEnd of every
\* bound shaft from the i-th on, in order
RECURSIVE AttachAll(_, _, _)
AttachAll(bound, i, cs) ==
    IF i > Len(bound) THEN cs
    ELSE AttachAll(bound, i + 1,
                   AddConnectedShaft(AddConnectedShaft(cs, bound[i].startBall, i), bound[i].endBall, i))

\* the balls constructed and pushed, the shafts constructed, pushed and
\* attached at both ends
SceneInit ==
    \E scene \in Scenes :
        /\ NoDrag
        /\ numBalls = Len(scene.positions)
        /\ balls = [i \in 1..Len(scene.positions) |-> i]
        /\ position = [b \in BallIds |-> IF b <= Len(scene.positions) THEN scene.positions[b] ELSE <<0, 50000>>]
        /\ numShafts = Len(scene.bound)
        /\ shafts = [i \in 1..Len(scene.bound) |-> i]
        /\ size = [s \in ShaftIds |-> IF s <= Len(scene.bound) THEN scene.bound[s].size ELSE "small"]
        /\ startBall = [s \in ShaftIds |-> IF s <= Len(scene.bound) THEN scene.bound[s].startBall ELSE NULL]
        /\ endBall = [s \in ShaftIds |-> IF s <= Len(scene.bound) THEN scene.bound[s].endBall ELSE NULL]
        /\ startDirection = [s \in ShaftIds |->
                IF s <= Len(scene.bound)
                THEN Normalize(SubVectors(scene.positions[scene.bound[s].endBall],
                                          scene.positions[scene.bound[s].startBall]))
                ELSE <<0, DIR_ONE>>]
        /\ connectedShafts = AttachAll(scene.bound, 1, [b \in BallIds |-> <<>>])
        /\ pendingShaft = NULL
        /\ pendingBall = NULL
        /\ isDeleteMode = FALSE
        /\ locked = [b \in BallIds |-> FALSE]
        /\ pc = "idle"
        /\ targetBall = NULL
        /\ allBalls = <<>>
        /\ ballStates = NoStates
        /\ constraints = <<>>
        /\ iter = 0
        /\ maxError = 0
        /\ converged = FALSE
        /\ preAttempt = NoAttempt

\* Ball.setLocked
SetLocked(ball, flag) ==
    /\ pc = "idle"
    /\ Contains(balls, ball)
    /\ locked' = [locked EXCEPT ![ball] = flag]
    /\ UNCHANGED builderVars
    /\ UNCHANGED <<position, connectedShafts, size, startBall, endBall, startDirection>>
    /\ UNCHANGED solverVars

\* a shaft constructed toward the target, pushed, attached to the source,
\* and solveConstraints(source, shaft, target) called with no snap test
\* before it: the call runs up to the first pass of solve
DirectSolve(sourceBall, target, selectedShaftSize) ==
    /\ pc = "idle"
    /\ pendingShaft = NULL
    /\ Contains(balls, sourceBall)
    /\ Contains(balls, target)
    /\ sourceBall # target
    /\ numShafts < MaxSceneShafts
    /\ UNCHANGED <<numBalls, balls, isDeleteMode>>
    /\ UNCHANGED <<position, endBall, locked>>
    /\ numShafts' = numShafts + 1
    /\ shafts' = Append(shafts, numShafts + 1)
    /\ size' = [size EXCEPT ![numShafts + 1] = selectedShaftSize]
    /\ startBall' = [startBall EXCEPT ![numShafts + 1] = sourceBall]
    /\ startDirection' = [startDirection EXCEPT ![numShafts + 1] =
                             Normalize(SubVectors(position[target], position[sourceBall]))]
    /\ connectedShafts' = AddConnectedShaft(connectedShafts, sourceBall, numShafts + 1)
    /\ pendingShaft' = numShafts + 1
    /\ pendingBall' = sourceBall
    /\ targetBall' = target
    /\ preAttempt' = GraphState'
    /\ allBalls' = GetAllConnectedBalls(sourceBall, target)'
    /\ ballStates' = InitialBallStates(allBalls)'
    /\ constraints' = CollectConstraints(allBalls, sourceBall, target,
                                         ShaftLength(selectedShaftSize) + BALL_RADIUS * 2)'
    /\ iter' = 0
    /\ maxError' = INFINITY
    /\ converged' = FALSE
    /\ pc' = "solving"

SceneNext ==
    \/ \E ball \in BallIds, flag \in BOOLEAN : SetLocked(ball, flag) /\ UNCHANGED mouseVars
    \/ \E sourceBall \in BallIds, target \in BallIds, selectedShaftSize \in ShaftSizes :
          DirectSolve(sourceBall, target, selectedShaftSize) /\ UNCHANGED mouseVars
    \/ SolvePass /\ UNCHANGED mouseVars
    \/ SolveReturn /\ UNCHANGED mouseVars

\* the solver called on structures set up directly
SceneSpec == SceneInit /\ [][SceneNext]_vars

\* ------------------------------------------------------- links and deletion
\* the fields the attach and disconnect methods of Shaft read and write
LinkState ==
    [connectedShafts |-> connectedShafts, startBall |-> startBall, endBall |-> endBall,
     startDirection |-> startDirection]

\* Shaft.attachToStart without a connection point
AttachToStart(g, s, ball) ==
    [g EXCEPT !.startBall[s] = ball, !.connectedShafts = AddConnectedShaft(@, ball, s)]

\* Shaft.attachToEnd
AttachToEnd(g, s, ball) ==
    [g EXCEPT !.endBall[s] = ball, !.connectedShafts = AddConnectedShaft(@, ball, s)]

\* Shaft.disconnectEnd
DisconnectEnd(g, s) ==
    IF g.endBall[s] = NULL THEN g
    ELSE [g EXCEPT !.connectedShafts = RemoveConnectedShaft(@, g.endBall[s], s), !.endBall[s] = NULL]

\* Shaft.disconnect
Disconnect(g, s) ==
    LET afterStart == IF g.startBall[s] = NULL THEN g
                      ELSE [g EXCEPT !.connectedShafts = RemoveConnectedShaft(@, g.startBall[s], s),
                                     !.startBall[s] = NULL]
    IN  DisconnectEnd(afterStart, s)

\* variant: the start is cleared and the end ball stays where it is
DisconnectStartClearsStart(g, s) ==
    IF g.startBall[s] = NULL THEN g
    ELSE [g EXCEPT !.connectedShafts = RemoveConnectedShaft(@, g.startBall[s], s),
                   !.startBall[s] = NULL]

\* Shaft.disconnectStart: the end ball, if any, becomes the start ball
DisconnectStart(g, s) ==
    IF g.startBall[s] = NULL THEN g
    ELSE IF g.endBall[s] # NULL
    THEN [g EXCEPT !.connectedShafts = RemoveConnectedShaft(@, g.startBall[s], s),
                   !.startBall[s] = g.endBall[s],
                   !.endBall[s] = NULL,
                   !.startDirection[s] = <<-@[1], -@[2]>>]
    ELSE [g EXCEPT !.connectedShafts = RemoveConnectedShaft(@, g.startBall[s], s),
                   !.startBall[s] = NULL]

\* the link fields become those of g
Relink(g) ==
    /\ connectedShafts' = g.connectedShafts
    /\ startBall' = g.startBall
    /\ endBall' = g.endBall
    /\ startDirection' = g.startDirection

\* variant: entering delete mode leaves a pending shaft pending
SetDeleteModeKeepsPending(enabled) ==
    /\ pc = "idle"
    /\ isDeleteMode' = enabled
    /\ UNCHANGED <<shafts, pendingShaft, pendingBall>>
    /\ UNCHANGED <<numBalls, numShafts, balls>>
    /\ UNCHANGED objectVars
    /\ UNCHANGED solverVars

\* MagneticBuilder.setDeleteMode: entering delete mode drops a pending shaft
SetDeleteMode(enabled) ==
    /\ pc = "idle"
    /\ isDeleteMode' = enabled
    /\ IF enabled /\ pendingShaft # NULL
       THEN /\ shafts' = RemoveFirst(shafts, pendingShaft)
            /\ pendingShaft' = NULL
            /\ pendingBall' = NULL
       ELSE UNCHANGED <<shafts, pendingShaft, pendingBall>>
    /\ UNCHANGED <<numBalls, numShafts, balls>>
    /\ UNCHANGED objectVars
    /\ UNCHANGED solverVars

\* MagneticBuilder.removeStrandedBalls on the lists cs
RemoveStrandedBalls(cs) == SelectSeq(balls, LAMBDA b : Len(cs[b]) # 0)

\* handleDeleteClick on a shaft: MagneticBuilder.deleteShaft
DeleteShaft(shaft) ==
    /\ pc = "idle"
    /\ isDeleteMode
    /\ Contains(shafts, shaft)
    /\ Relink(Disconnect(LinkState, shaft))
    /\ shafts' = RemoveFirst(shafts, shaft)
    /\ balls' = RemoveStrandedBalls(Disconnect(LinkState, shaft).connectedShafts)
    /\ UNCHANGED <<numBalls, numShafts, pendingShaft, pendingBall, isDeleteMode>>
    /\ UNCHANGED <<position, size, locked>>
    /\ UNCHANGED solverVars

\* deleteBall's loop over the copy of the ball's list, from its i-th shaft on
RECURSIVE DisconnectFrom(_, _, _, _)
DisconnectFrom(g, ball, list, i) ==
    IF i > Len(list) THEN g
    ELSE DisconnectFrom(IF g.startBall[list[i]] = ball THEN DisconnectStart(g, list[i])
                        ELSE IF g.endBall[list[i]] = ball THEN DisconnectEnd(g, list[i])
                        ELSE g,
                        ball, list, i + 1)

\* variant: the shafts of the deleted ball leave the shaft list with it
DeleteBallWithShafts(ball) ==
    /\ pc = "idle"
    /\ isDeleteMode
    /\ Contains(balls, ball)
    /\ Relink(DisconnectFrom(LinkState, ball, connectedShafts[ball], 1))
    /\ balls' = RemoveFirst(balls, ball)
    /\ shafts' = SelectSeq(shafts, LAMBDA s : ~Contains(connectedShafts[ball], s))
    /\ UNCHANGED <<numBalls, numShafts, pendingShaft, pendingBall, isDeleteMode>>
    /\ UNCHANGED <<position, size, locked>>
    /\ UNCHANGED solverVars

\* handleDeleteClick on a ball: MagneticBuilder.deleteBall
DeleteBall(ball) ==
    /\ pc = "idle"
    /\ isDeleteMode
    /\ Contains(balls, ball)
    /\ Relink(DisconnectFrom(LinkState, ball, connectedShafts[ball], 1))
    /\ balls' = RemoveFirst(balls, ball)
    /\ UNCHANGED <<numBalls, numShafts, shafts, pendingShaft, pendingBall, isDeleteMode>>
    /\ UNCHANGED <<position, size, locked>>
    /\ UNCHANGED solverVars

\* handleClick with the delete mode: build clicks only outside it
DeleteNext ==
    \/ \E p \in AddPositions : AddBall(p) /\ UNCHANGED mouseVars
    \/ \E ball \in BallIds, direction \in ClickDirections, selectedShaftSize \in ShaftSizes :
          ~isDeleteMode /\ FirstBallClick(ball, direction, selectedShaftSize) /\ UNCHANGED mouseVars
    \/ \E ball \in BallIds : ~isDeleteMode /\ SecondClickSameBall(ball) /\ UNCHANGED mouseVars
    \/ \E ball \in BallIds : ~isDeleteMode /\ SecondClickSnap(ball) /\ UNCHANGED mouseVars
    \/ \E ball \in BallIds : ~isDeleteMode /\ SecondClickSolve(ball) /\ UNCHANGED mouseVars
    \/ SolvePass /\ UNCHANGED mouseVars
    \/ SolveReturn /\ UNCHANGED mouseVars
    \/ \E shaft \in ShaftIds : ~isDeleteMode /\ ShaftEndClick(shaft) /\ UNCHANGED mouseVars
    \/ \E enabled \in BOOLEAN : SetDeleteMode(enabled) /\ UNCHANGED mouseVars
    \/ \E shaft \in ShaftIds : DeleteShaft(shaft) /\ UNCHANGED mouseVars
    \/ \E ball \in BallIds : DeleteBall(ball) /\ UNCHANGED mouseVars

\* the builder with its delete mode
DeleteSpec == Init /\ [][DeleteNext]_vars

\* the balls constructed and the shafts constructed, nothing attached
LinkInit ==
    /\ NoDrag
    /\ numBalls = MaxBalls
    /\ numShafts = MaxShafts
    /\ balls = [i \in 1..MaxBalls |-> i]
    /\ shafts = [i \in 1..MaxShafts |-> i]
    /\ position = [b \in BallIds |-> <<0, 50000>>]
    /\ connectedShafts = [b \in BallIds |-> <<>>]
    /\ size = [s \in ShaftIds |-> "small"]
    /\ startBall = [s \in ShaftIds |-> NULL]
    /\ endBall = [s \in ShaftIds |-> NULL]
    /\ startDirection = [s \in ShaftIds |-> <<0, DIR_ONE>>]
    /\ pendingShaft = NULL
    /\ pendingBall = NULL
    /\ isDeleteMode = FALSE
    /\ locked = [b \in BallIds |-> FALSE]
    /\ pc = "idle"
    /\ targetBall = NULL
    /\ allBalls = <<>>
    /\ ballStates = NoStates
    /\ constraints = <<>>
    /\ iter = 0
    /\ maxError = 0
    /\ converged = FALSE
    /\ preAttempt = NoAttempt

\* what a call of a Shaft method leaves alone
LinkFrame ==
    /\ UNCHANGED builderVars
    /\ UNCHANGED <<position, size, locked>>
    /\ UNCHANGED solverVars
    /\ UNCHANGED mouseVars

\* a call of each of the five methods on a constructed shaft
CallAttachToStart(s, ball) == s <= numShafts /\ Relink(AttachToStart(LinkState, s, ball)) /\ LinkFrame

CallAttachToEnd(s, ball) == s <= numShafts /\ Relink(AttachToEnd(LinkState, s, ball)) /\ LinkFrame

CallDisconnect(s) == s <= numShafts /\ Relink(Disconnect(LinkState, s)) /\ LinkFrame

CallDisconnectStart(s) == s <= numShafts /\ Relink(DisconnectStart(LinkState, s)) /\ LinkFrame

CallDisconnectEnd(s) == s <= numShafts /\ Relink(DisconnectEnd(LinkState, s)) /\ LinkFrame

LinkNext ==
    \/ \E s \in ShaftIds, ball \in BallIds : CallAttachToStart(s, ball)
    \/ \E s \in ShaftIds, ball \in BallIds : CallAttachToEnd(s, ball)
    \/ \E s \in ShaftIds : CallDisconnect(s)
    \/ \E s \in ShaftIds : CallDisconnectStart(s)
    \/ \E s \in ShaftIds : CallDisconnectEnd(s)

\* the attach and disconnect methods called in any order
LinkSpec == LinkInit /\ [][LinkNext]_vars

\* ------------------------------------------------------------------ dragging
\* pixel distances of the cursor from where the button went down
PixelDistances == {DRAG_THRESHOLD - 1, DRAG_THRESHOLD}

\* where the cursor takes the dragged ball, seen from its drag-start position
DragDeltas == {<<0, 0>>, <<300000, 0>>, <<-300000, 0>>}

\* the cursor stays in the window
InView(p) == Abs(p[1]) <= MaxReach /\ Abs(p[2]) <= MaxReach

\* MagneticBuilder.getConnectedAssembly: the same loop as getAllConnectedBalls,
\* from one ball
GetConnectedAssembly(ball) == Traverse(<<ball>>, <<>>)

\* variant: every ball is moved from where it is now
MoveAssemblyFromCurrent(delta) ==
    [b \in BallIds |-> IF b \in DOMAIN dragStartPositions THEN AddVectors(position[b], delta) ELSE position[b]]

\* MagneticBuilder.moveAssembly: the positions after it
MoveAssembly(delta) ==
    [b \in BallIds |-> IF b \in DOMAIN dragStartPositions THEN AddVectors(dragStartPositions[b], delta) ELSE position[b]]

\* what the position map of prepareDrag holds for a pressed ball
CapturedPositions(ball) == [b \in SeqToSet(GetConnectedAssembly(ball)) |-> position[b]]

\* variant: a drag is prepared whether or not a shaft is pending
MouseDownAlwaysPrepares(hit) ==
    /\ pc = "idle"
    /\ hit # NULL => Contains(balls, hit)
    /\ IF hit # NULL
       THEN /\ draggedBall' = hit
            /\ dragStartPositions' = CapturedPositions(hit)
       ELSE UNCHANGED <<draggedBall, dragStartPositions>>
    /\ UNCHANGED <<isDragging, justEndedDrag>>
    /\ UNCHANGED <<builderVars, objectVars, solverVars>>

\* onMouseDown with the left button; hit is the ball under the cursor, if any
MouseDown(hit) ==
    /\ pc = "idle"
    /\ hit # NULL => Contains(balls, hit)
    /\ IF hit # NULL /\ pendingShaft = NULL
       THEN /\ draggedBall' = hit
            /\ dragStartPositions' = CapturedPositions(hit)
       ELSE UNCHANGED <<draggedBall, dragStartPositions>>
    /\ UNCHANGED <<isDragging, justEndedDrag>>
    /\ UNCHANGED <<builderVars, objectVars, solverVars>>

\* onMouseMove: past the threshold the drag starts, and a started drag moves
\* the assembly (the drag plane faces the camera, so the ray always meets it)
MouseMove(distance, delta) ==
    /\ pc = "idle"
    /\ IF draggedBall # NULL
       THEN /\ isDragging' = (isDragging \/ distance >= DRAG_THRESHOLD)
            /\ position' = IF isDragging' THEN MoveAssembly(delta) ELSE position
       ELSE UNCHANGED <<isDragging, position>>
    /\ \A b \in BallIds : InView(position'[b])
    /\ UNCHANGED <<draggedBall, dragStartPositions, justEndedDrag>>
    /\ UNCHANGED builderVars
    /\ UNCHANGED <<connectedShafts, size, startBall, endBall, startDirection, locked>>
    /\ UNCHANGED solverVars

\* handleClick when the ray hits nothing
NoHit == UNCHANGED <<builderVars, objectVars, solverVars>>

\* handleClick on the body of a shaft: deleteShaft when no shaft is pending
\* and the shaft is fully connected
ShaftBodyClick(shaft) ==
    /\ pc = "idle"
    /\ Contains(shafts, shaft)
    /\ IF pendingShaft = NULL /\ IsFullyConnected(shaft)
       THEN /\ Relink(Disconnect(LinkState, shaft))
            /\ shafts' = RemoveFirst(shafts, shaft)
            /\ balls' = RemoveStrandedBalls(Disconnect(LinkState, shaft).connectedShafts)
       ELSE UNCHANGED <<connectedShafts, startBall, endBall, startDirection, shafts, balls>>
    /\ UNCHANGED <<numBalls, numShafts, pendingShaft, pendingBall, isDeleteMode>>
    /\ UNCHANGED <<position, size, locked>>
    /\ UNCHANGED solverVars

\* variant: the release that ends a drag is handed to handleClick as well
MouseUpClicksAfterDrag(click) ==
    /\ pc = "idle"
    /\ IF isDragging
       THEN /\ isDragging' = FALSE
            /\ draggedBall' = NULL
            /\ dragStartPositions' = <<>>
            /\ justEndedDrag' = TRUE
            /\ click
       ELSE /\ IF draggedBall # NULL
               THEN draggedBall' = NULL /\ dragStartPositions' = <<>>
               ELSE UNCHANGED <<draggedBall, dragStartPositions>>
            /\ UNCHANGED <<isDragging, justEndedDrag>>
            /\ IF justEndedDrag THEN NoHit ELSE click

\* onMouseUp with the left button; click is what handleClick does with the
\* object under the cursor
MouseUp(click) ==
    /\ pc = "idle"
    /\ IF isDragging
       THEN /\ isDragging' = FALSE
            /\ draggedBall' = NULL
            /\ dragStartPositions' = <<>>
            /\ justEndedDrag' = TRUE
            /\ NoHit
       ELSE /\ IF draggedBall # NULL
               THEN draggedBall' = NULL /\ dragStartPositions' = <<>>
               ELSE UNCHANGED <<draggedBall, dragStartPositions>>
            /\ UNCHANGED <<isDragging, justEndedDrag>>
            /\ IF justEndedDrag THEN NoHit ELSE click

\* the timeout set by onMouseUp at the end of a drag
DragTimeout ==
    /\ pc = "idle"
    /\ justEndedDrag
    /\ justEndedDrag' = FALSE
    /\ UNCHANGED <<isDragging, draggedBall, dragStartPositions>>
    /\ UNCHANGED <<builderVars, objectVars, solverVars>>

DragNext ==
    \/ \E p \in AddPositions : AddBall(p) /\ UNCHANGED mouseVars
    \/ \E hit \in BallIds \cup {NULL} : MouseDown(hit)
    \/ \E distance \in PixelDistances, delta \in DragDeltas : MouseMove(distance, delta)
    \/ MouseUp(NoHit)
    \/ \E ball \in BallIds, direction \in ClickDirections, selectedShaftSize \in ShaftSizes :
          numShafts < MaxDragShafts /\ MouseUp(FirstBallClick(ball, direction, selectedShaftSize))
    \/ \E ball \in BallIds : MouseUp(SecondClickSameBall(ball))
    \/ \E ball \in BallIds : MouseUp(SecondClickSnap(ball))
    \/ \E ball \in BallIds : MouseUp(SecondClickSolve(ball))
    \/ \E shaft \in ShaftIds : MouseUp(ShaftEndClick(shaft))
    \/ \E shaft \in ShaftIds : MouseUp(ShaftBodyClick(shaft))
    \/ DragTimeout
    \/ SolvePass /\ UNCHANGED mouseVars
    \/ SolveReturn /\ UNCHANGED mouseVars

\* the builder driven by the mouse: presses, moves, releases
DragSpec == Init /\ [][DragNext]_vars

\* ------------------------------------------------------------- save and load
\* the direction serializeStructure reads off the mesh orientation, as
\* Shaft.update left it
MeshDirection(s) ==
    IF IsFullyConnected(s) THEN Normalize(SubVectors(position[endBall[s]], position[startBall[s]]))
    ELSE IF startDirection[s] = <<0, 0>> THEN <<0, DIR_ONE>>
    ELSE startDirection[s]

\* one SavedShaft: indexOf is zero-based and -1 for a ball that is not in the
\* list; endBallIndex is null (here <<>>) for a shaft without an end ball
SavedShaft(s) ==
    [size |-> size[s],
     startBallIndex |-> IF startBall[s] # NULL THEN IndexOf(balls, startBall[s]) - 1 ELSE -1,
     endBallIndex |-> IF endBall[s] # NULL THEN <<IndexOf(balls, endBall[s]) - 1>> ELSE <<>>,
     direction |-> MeshDirection(s)]

\* MagneticBuilder.serializeStructure
SerializeStructure ==
    [balls |-> [i \in DOMAIN balls |-> position[balls[i]]],
     shafts |-> [j \in DOMAIN shafts |-> SavedShaft(shafts[j])]]

\* the saved shafts deserializeStructure does not skip
SavedShaftsRebuilt(data) ==
    SelectSeq(data.shafts, LAMBDA sh : sh.startBallIndex >= 0 /\ sh.startBallIndex < Len(data.balls))

\* the end ball deserializeStructure attaches for one saved shaft, if any
SavedEndBall(data, sh) ==
    IF sh.endBallIndex # <<>> /\ sh.endBallIndex[1] >= 0 /\ sh.endBallIndex[1] < Len(data.balls)
    THEN sh.endBallIndex[1] + 1 ELSE NULL

\* the start ball deserializeStructure attaches for one saved shaft
SavedStartBall(data, sh) ==
    IF sh.startBallIndex >= 0 /\ sh.startBallIndex < Len(data.balls) THEN sh.startBallIndex + 1 ELSE NULL

\* MagneticBuilder.deserializeStructure: clearAll, then a ball per saved ball
\* and a shaft per saved shaft that has a start ball.  The rebuilt objects
\* take the identities 1, 2, ... of the discarded ones, in list order.
DeserializeStructure(data) ==
    LET n == Len(data.balls)
        kept == SavedShaftsRebuilt(data)
        m == Len(kept)
        start == [s \in ShaftIds |-> IF s <= m THEN SavedStartBall(data, kept[s]) ELSE NULL]
        end == [s \in ShaftIds |-> IF s <= m THEN SavedEndBall(data, kept[s]) ELSE NULL]
    IN  /\ balls' = [i \in 1..n |-> i]
        /\ position' = [b \in BallIds |-> IF b <= n THEN data.balls[b] ELSE <<0, 50000>>]
        /\ locked' = [b \in BallIds |-> FALSE]
        /\ shafts' = [j \in 1..m |-> j]
        /\ size' = [s \in ShaftIds |-> IF s <= m THEN kept[s].size ELSE "small"]
        /\ startDirection' = [s \in ShaftIds |-> IF s <= m THEN kept[s].direction ELSE <<0, DIR_ONE>>]
        /\ startBall' = start
        /\ endBall' = end
        /\ connectedShafts' =
              [b \in BallIds |-> SelectSeq([j \in 1..m |-> j], LAMBDA s : start[s] = b \/ end[s] = b)]
        /\ pendingShaft' = NULL
        /\ pendingBall' = NULL
        /\ UNCHANGED <<numBalls, numShafts, isDeleteMode>>
        /\ UNCHANGED solverVars
        /\ UNCHANGED mouseVars

\* a structure is saved and loaded back
Reload ==
    /\ pc = "idle"
    /\ \E data \in {SerializeStructure} : DeserializeStructure(data)

SaveNext ==
    \/ DeleteNext
    \/ Reload

\* the builder with its delete mode and its save and load buttons
SaveSpec == Init /\ [][SaveNext]_vars

\* ------------------------------------------------------------ properties
\* the solver reported converged and validatePlan accepted the plan
PlanAccepted ==
    /\ converged
    /\ ValidatePlan(ballStates, allBalls, pendingShaft, pendingBall, targetBall).valid

\* a step of handleBallClick's call of solveConstraints, its entry included
CallStep == pc # "idle" \/ pc' # "idle"

\* C1: all-or-nothing application.  While solveConstraints runs, a ball's
\* position changes only in the step that returns, and only when the solver
\* reported converged and validatePlan accepted (applyPlan); when the call
\* returns success:false every position is what it was when the call began.
C1_AllOrNothing ==
    [][/\ (CallStep /\ position' # position) => (pc = "solved" /\ PlanAccepted)
       /\ (pc = "solved" /\ ~PlanAccepted) => position' = preAttempt.position]_vars

\* a failing call is about to return and its plan has moved a ball
C1_Witness ==
    /\ pc = "solved"
    /\ ~PlanAccepted
    /\ \E b \in DOMAIN ballStates : ballStates[b].newPosition # position[b]

\* C2: the pending shaft ends up bound to the clicked ball only on success.
\* A direct snap binds it to the clicked ball; no step of a solveConstraints
\* call before the return binds it; the return binds it to the target exactly
\* when the result is success:true, and otherwise leaves the end unset, the
\* target's shaft list without it, and the shaft out of the shaft list.
C2_BoundOnlyOnSuccess ==
    [][/\ \A ball \in BallIds : SecondClickSnap(ball) => endBall'[pendingShaft] = ball
       /\ pc' # "idle" => endBall'[pendingShaft] = NULL
       /\ pc = "solved" =>
             IF PlanAccepted
             THEN endBall'[pendingShaft] = targetBall /\ Contains(shafts', pendingShaft)
             ELSE /\ endBall'[pendingShaft] = NULL
                  /\ ~Contains(connectedShafts'[targetBall], pendingShaft)
                  /\ ~Contains(shafts', pendingShaft)]_vars

\* a failed attempt has removed its shaft, whose end is unset
C2_Witness ==
    /\ pc = "idle"
    /\ \E s \in 1..numShafts : ~Contains(shafts, s) /\ endBall[s] = NULL /\ startBall[s] # NULL

\* two balls are joined by a fully connected shaft
Linked(a, b) ==
    \E s \in ShaftIds :
        /\ IsFullyConnected(s)
        /\ (startBall[s] = a /\ endBall[s] = b) \/ (startBall[s] = b /\ endBall[s] = a)

RECURSIVE Reachable(_)
\* the balls reachable from a set of balls over fully connected shafts
Reachable(S) ==
    LET T == S \cup {b \in BallIds : \E a \in S : Linked(a, b)}
    IN  IF T = S THEN S ELSE Reachable(T)

\* C3: graph scoping.  For every pair of seeds, equal or not, connected or
\* not, getAllConnectedBalls returns exactly the balls reachable from either
\* seed over fully connected shafts, each once; a running call works on that
\* set for its source and target.
C3_GraphScoping ==
    /\ \A source \in SeqToSet(balls), target \in SeqToSet(balls) :
          LET found == GetAllConnectedBalls(source, target)
          IN  /\ SeqToSet(found) = Reachable({source, target})
              /\ Cardinality(SeqToSet(found)) = Len(found)
    /\ pc # "idle" => SeqToSet(allBalls) = Reachable({pendingBall, targetBall})

\* a call runs on three balls, one of them reached over a fully connected
\* shaft from its end ball, while a ball still carries the unbound shaft
C3_Witness ==
    /\ pc = "solving"
    /\ Len(allBalls) = 3
    /\ \E s \in ShaftIds : IsFullyConnected(s) /\ endBall[s] \in {pendingBall, targetBall}
                          /\ startBall[s] \notin {pendingBall, targetBall}
    /\ ~IsFullyConnected(pendingShaft)

\* C4: a shaft-end click that creates and connects a ball leaves pendingShaft
\* and pendingBall null, and a ball click in a state without a pending shaft
\* takes the first-click branch: it creates a new pending shaft on that ball.
C4_ShaftEndClickClearsPending ==
    [][/\ (\E shaft \in ShaftIds : ShaftEndClick(shaft)) => (pendingShaft' = NULL /\ pendingBall' = NULL)
       /\ \A ball \in BallIds :
             (pendingShaft = NULL /\ pc = "idle" /\ pendingBall' = ball /\ pendingShaft' # NULL) =>
                 /\ pendingShaft' = numShafts'
                 /\ numShafts' = numShafts + 1
                 /\ startBall'[pendingShaft'] = ball
                 /\ endBall' = endBall]_vars

\* the first shaft was bound to a ball made by a shaft-end click and the next
\* ball click has made a second, pending shaft
C4_Witness ==
    /\ numBalls = 2
    /\ position[1] = <<0, 50000>>
    /\ position[2] = <<0, 350000>>
    /\ startBall[1] = 1 /\ endBall[1] = 2 /\ size[1] = "small"
    /\ pendingShaft = 2
    /\ pendingBall = 2

\* C5: no ball click or shaft-end click deletes or alters a fully connected
\* shaft: a shaft of the list whose two ends are set is still in the list
\* after the step, with the same start and end ball; a shaft that leaves the
\* list has its end unset.
C5_ConnectedShaftsKept ==
    [][\A s \in ShaftIds :
          /\ (Contains(shafts, s) /\ IsFullyConnected(s)) =>
                (Contains(shafts', s) /\ startBall'[s] = startBall[s] /\ endBall'[s] = endBall[s])
          /\ (Contains(shafts, s) /\ ~Contains(shafts', s)) => (endBall[s] = NULL /\ endBall'[s] = NULL)]_vars

\* a failed attempt has removed its shaft while a fully connected shaft that
\* starts at the same ball is still in the list
C5_Witness ==
    /\ pc = "idle"
    /\ \E s \in 1..numShafts, t \in 1..numShafts :
          /\ ~Contains(shafts, s)
          /\ Contains(shafts, t) /\ IsFullyConnected(t)
          /\ startBall[s] = startBall[t]

\* the fully connected shafts with an end in a set of balls
Incident(S) == {s \in ShaftIds : IsFullyConnected(s) /\ (startBall[s] \in S \/ endBall[s] \in S)}

\* the orders in which a non-empty set of balls can be iterated
Orders(S) ==
    {q \in UNION {[1..n -> S] : n \in 1..Cardinality(S)} : \A i, j \in DOMAIN q : q[i] = q[j] => i = j}

\* cons is one constraint per shaft of Incident(S), then the tentative one
CollectsExactly(cons, S, source, target, d) ==
    /\ Len(cons) = Cardinality(Incident(S)) + 1
    /\ \A s \in Incident(S) : \E i \in 1..(Len(cons) - 1) :
          cons[i] = [ball1 |-> startBall[s], ball2 |-> endBall[s],
                     distance |-> ShaftLength(size[s]) + 2 * BALL_RADIUS, shaft |-> s]
    /\ \A i \in 1..(Len(cons) - 1) : cons[i].shaft \in Incident(S)
    /\ cons[Len(cons)] = [ball1 |-> source, ball2 |-> target, distance |-> d, shaft |-> NULL]

\* C6: collectConstraints emits exactly one constraint per distinct fully
\* connected shaft incident to a ball of the given set, with distance =
\* length + 2 * BALL_RADIUS, none for a shaft that is not fully connected,
\* and exactly one tentative constraint (shaft null, the caller's distance)
\* as the last element; for the list a call has just collected and for
\* every ordered set of balls of the scene.
C6_OneConstraintPerShaft ==
    /\ (pc = "solving" /\ iter = 0) =>
          CollectsExactly(constraints, SeqToSet(allBalls), pendingBall, targetBall,
                          ShaftLength(size[pendingShaft]) + 2 * BALL_RADIUS)
    /\ pc = "idle" =>
          \A all \in Orders(SeqToSet(balls)), source \in SeqToSet(balls), target \in SeqToSet(balls) :
              \A sz \in ShaftSizes :
                  CollectsExactly(CollectConstraints(all, source, target, ShaftLength(sz) + 2 * BALL_RADIUS),
                                  SeqToSet(all), source, target, ShaftLength(sz) + 2 * BALL_RADIUS)

\* a call has collected the constraint of a fully connected shaft whose two
\* balls are both in the set, and the tentative one
C6_Witness ==
    /\ pc = "solving"
    /\ iter = 0
    /\ Len(constraints) = 2
    /\ constraints[1].ball1 \in SeqToSet(allBalls)
    /\ constraints[1].ball2 \in SeqToSet(allBalls)
    /\ Contains(connectedShafts[pendingBall], pendingShaft)

\* C7 as stated: when solveConstraints returns success:false, every ball's
\* position and connected-shaft list and every shaft's start ball, end ball
\* and start direction are what they were before the call.
C7_FailureKeepsGraph ==
    [][(pc = "solved" /\ ~PlanAccepted) =>
          [position |-> position', connectedShafts |-> connectedShafts', startBall |-> startBall',
           endBall |-> endBall', startDirection |-> startDirection'] = preAttempt]_vars

\* C8: solve reports converged exactly when a pass measured a maximum error
\* below POSITION_TOLERANCE, where it stops, or when all MAX_ITERATIONS passes
\* ran and the last one measured less than 100 * POSITION_TOLERANCE; it goes
\* on after a pass that measured more, and when it reports not converged the
\* call fails with createPlan's message.
C8_ConvergedExactly ==
    /\ pc = "solved" =>
          /\ converged <=> (maxError < POSITION_TOLERANCE
                            \/ (iter = MAX_ITERATIONS /\ maxError < 100 * POSITION_TOLERANCE))
          /\ iter < MAX_ITERATIONS => maxError < POSITION_TOLERANCE
          /\ ~converged => (~SolveResult.success /\ SolveResult.message = "Cannot satisfy constraints")
    /\ (pc = "solving" /\ iter > 0) => maxError >= POSITION_TOLERANCE

\* all passes ran and the last one measured an error between the two
\* thresholds: converged by the looser one
C8_Witness ==
    /\ pc = "solved"
    /\ iter = MAX_ITERATIONS
    /\ converged
    /\ maxError >= POSITION_TOLERANCE

\* C9: every call of solveConstraints terminates: graph discovery holds each
\* ball once, the solver never runs more than MAX_ITERATIONS passes, and a
\* call that has begun returns.
C9_Terminates ==
    /\ [](/\ iter <= MAX_ITERATIONS
          /\ Len(allBalls) = Cardinality(SeqToSet(allBalls))
          /\ Len(allBalls) <= numBalls)
    /\ (pc # "idle") ~> (pc = "idle")

\* an unsatisfiable set used up the whole budget
C9_Witness ==
    /\ pc = "solved"
    /\ iter = MAX_ITERATIONS
    /\ ~converged
    /\ Len(constraints) > 1

\* the plan's error on the tentative pair
NewConnectionError(states, newShaft, source, target) ==
    Abs(Length(SubVectors(states[target].newPosition, states[source].newPosition))
        - (ShaftLength(size[newShaft]) + 2 * BALL_RADIUS))

\* the plan's error on a fully connected shaft
ShaftError(states, s) ==
    Abs(Length(SubVectors(states[endBall[s]].newPosition, states[startBall[s]].newPosition))
        - (ShaftLength(size[s]) + 2 * BALL_RADIUS))

\* C10: validatePlan rejects a plan exactly when the tentative pair's
\* |distance - (newShaft length + 2 * BALL_RADIUS)| exceeds 0.1 or that of
\* some fully connected shaft of the plan's balls does; every plan a call
\* holds, converged or not, is measured.
C10_ValidatePlanRejectsExactly ==
    pc # "idle" =>
        (~ValidatePlan(ballStates, allBalls, pendingShaft, pendingBall, targetBall).valid
         <=> \/ NewConnectionError(ballStates, pendingShaft, pendingBall, targetBall) > 100 * POSITION_TOLERANCE
             \/ \E s \in Incident(DOMAIN ballStates) : ShaftError(ballStates, s) > 100 * POSITION_TOLERANCE)

\* a plan whose tentative pair is within 0.1 while a fully connected shaft of
\* its balls is not
C10_Witness ==
    /\ pc # "idle"
    /\ NewConnectionError(ballStates, pendingShaft, pendingBall, targetBall) <= 100 * POSITION_TOLERANCE
    /\ \E s \in Incident(DOMAIN ballStates) : ShaftError(ballStates, s) > 100 * POSITION_TOLERANCE


\* the position applyPlan is to leave ball b with: the candidate when it lies
\* more than POSITION_TOLERANCE from where the ball is, else where the ball is
Committed(b) ==
    IF b \in DOMAIN ballStates /\ DistanceTo(position[b], ballStates[b].newPosition) > POSITION_TOLERANCE
    THEN ballStates[b].newPosition
    ELSE position[b]

\* C11: applyPlan writes the candidate position to exactly the balls of the
\* plan whose candidate is more than POSITION_TOLERANCE from the original;
\* the plan's balls displaced by at most the tolerance and the balls outside
\* the plan keep their position.  Stated of applyPlan on every plan the
\* solver holds, and of the step in which an accepted plan is committed.
C11_ApplyPlanWritesMovedBalls ==
    /\ [](pc # "idle" => ApplyPlan(ballStates) = [b \in BallIds |-> Committed(b)])
    /\ [][(pc = "solved" /\ PlanAccepted) => position' = [b \in BallIds |-> Committed(b)]]_vars

\* a plan holds a ball moved by less than the tolerance but not left in
\* place, beside a ball moved further
C11_Witness ==
    /\ pc # "idle"
    /\ \E b \in DOMAIN ballStates :
          /\ ballStates[b].newPosition # position[b]
          /\ DistanceTo(position[b], ballStates[b].newPosition) <= POSITION_TOLERANCE
    /\ \E b \in DOMAIN ballStates : DistanceTo(position[b], ballStates[b].newPosition) > POSITION_TOLERANCE

\* how far the two balls of shaft s are from its required distance, in the
\* positions pos
PlacedError(pos, s) == Abs(DistanceTo(pos[startBall[s]], pos[endBall[s]]) - RequiredDistance(s))

\* the fully connected shafts with a ball among the balls of the running call
ComponentShafts == Incident(SeqToSet(allBalls))

\* C12: after solveConstraints returned success:true on an assembly whose
\* bound shafts were at their required distances, the committed positions
\* satisfy every constraint: each fully connected shaft of the component and
\* the new pair are less than 0.1 from length + 2 * BALL_RADIUS.
C12_CommittedPositionsSatisfy ==
    [][(/\ pc = "solved"
        /\ SolveResult.success
        /\ \A s \in ComponentShafts : PlacedError(position, s) <= POSITION_TOLERANCE)
       => /\ \A s \in ComponentShafts : PlacedError(position', s) < POSITION_TOLERANCE * 100
          /\ Abs(DistanceTo(position'[pendingBall], position'[targetBall]) - RequiredDistance(pendingShaft))
                < POSITION_TOLERANCE * 100]_vars

\* a successful call is about to commit a plan that moves both balls of a
\* bound shaft of the component
C12_Witness ==
    /\ pc = "solved"
    /\ SolveResult.success
    /\ \A s \in ComponentShafts : PlacedError(position, s) <= POSITION_TOLERANCE
    /\ \E s \in ComponentShafts :
          /\ ApplyPlan(ballStates)[startBall[s]] # position[startBall[s]]
          /\ ApplyPlan(ballStates)[endBall[s]] # position[endBall[s]]

\* the running call is for a pair whose centres are exactly at the required
\* distance of the proposed shaft
ExactPair == DistanceTo(position[pendingBall], position[targetBall]) = RequiredDistance(pendingShaft)

\* C13: idempotence of a no-op connection.  A solveConstraints call for a
\* source and target whose centre distance already equals exactly shaft
\* length + 2 * BALL_RADIUS returns success:true and changes no ball position.
C13_NoOpConnection ==
    [][(pc = "solved" /\ ExactPair) => (SolveResult.success /\ position' = position)]_vars

\* the bound shafts in ball b's list, the tentative shaft left out
BoundShaftsOf(b) ==
    {s \in ShaftIds \ {pendingShaft} :
        Contains(connectedShafts[b], s) /\ startBall[s] # NULL /\ endBall[s] # NULL}

\* C14: the mass of each ball of the plan is 1 plus the number of fully
\* connected shafts in its list at solve time; the tentative shaft, attached
\* at its start only, is not counted.
C14_MassCountsBoundShafts ==
    pc # "idle" => \A b \in DOMAIN ballStates : ballStates[b].mass = 1 + Cardinality(BoundShaftsOf(b))

\* a call runs whose source ball lists two bound shafts and the tentative one
C14_Witness ==
    /\ pc = "solving"
    /\ Contains(connectedShafts[pendingBall], pendingShaft)
    /\ Len(connectedShafts[pendingBall]) = 3
    /\ ballStates[pendingBall].mass = 3

\* the plan after constraint c alone is applied to the plan of the running call
After(c) == ApplyConstraint([states |-> ballStates, maxError |-> 0, nudged |-> FALSE], c, <<DIR_ONE, 0>>).states

\* how far constraint c is from its distance in the plan of the running call
ErrorOf(c) == DistanceTo(ballStates[c.ball1].newPosition, ballStates[c.ball2].newPosition) - c.distance

\* what constraint c adds to ball1's candidate and takes from ball2's
Displacement1(c) == SubVectors(After(c)[c.ball1].newPosition, ballStates[c.ball1].newPosition)
Displacement2(c) == SubVectors(ballStates[c.ball2].newPosition, After(c)[c.ball2].newPosition)

\* the constraints of the running call that solve corrects in the plan as it is
Corrected == {i \in DOMAIN constraints : Abs(ErrorOf(constraints[i])) > POSITION_TOLERANCE}

\* displacement a is longer than displacement b along the same line
Further(a, b) == (\A k \in 1..2 : Abs(a[k]) >= Abs(b[k])) /\ (\E k \in 1..2 : Abs(a[k]) > Abs(b[k]))

\* C15: mass weighting.  When solve corrects a constraint, the displacements
\* of ball1 and ball2 are in the ratio m2 : m1 (to the rounding of one unit
\* per coordinate), the two corrections add up to error * relaxation (w1 + w2 = 1),
\* and the ball with fewer bound shafts moves further; masses 2 and 4 split
\* a correction 4 : 2.
C15_MassWeighting ==
    pc = "solving" =>
        \A i \in Corrected :
            LET c == constraints[i]
                m1 == ballStates[c.ball1].mass
                m2 == ballStates[c.ball2].mass
                d1 == Displacement1(c)
                d2 == Displacement2(c)
            IN  /\ \A k \in 1..2 : Abs(d1[k] * m1 - d2[k] * m2) <= m1 + m2
                /\ Abs(RELAXATION_DIV * (Correction1(ErrorOf(c), m1, m2) + Correction2(ErrorOf(c), m1, m2))
                        - ErrorOf(c)) <= RELAXATION_DIV
                /\ m1 < m2 => Further(d1, d2)
                /\ m2 < m1 => Further(d2, d1)
                /\ Abs(Correction1(ErrorOf(c), 2, 4) * 2 - Correction2(ErrorOf(c), 2, 4) * 4) <= 3

\* a call is about to correct a constraint between balls of different mass
C15_Witness ==
    /\ pc = "solving"
    /\ \E i \in Corrected :
          /\ ballStates[constraints[i].ball1].mass = 3
          /\ ballStates[constraints[i].ball2].mass = 2
          /\ Displacement1(constraints[i]) # <<0, 0>>

\* the running call proposes the third side of a triangle: two bound shafts
\* of the proposed shaft's size, each exactly at its required distance,
\* share ball a, and the call is between their other balls
ClosesTriangle(a) ==
    /\ a \notin {pendingBall, targetBall}
    /\ \E s1 \in ShaftIds, s2 \in ShaftIds :
          /\ IsFullyConnected(s1) /\ IsFullyConnected(s2)
          /\ {startBall[s1], endBall[s1]} = {a, pendingBall}
          /\ {startBall[s2], endBall[s2]} = {a, targetBall}
          /\ size[s1] = size[pendingShaft] /\ size[s2] = size[pendingShaft]
          /\ PlacedError(position, s1) = 0 /\ PlacedError(position, s2) = 0

\* C16: triangle closure.  With two shafts of the same length bound at the
\* required distance d and sharing one ball, proposing the third shaft
\* between the two free ends returns success, and the committed positions
\* have all three pairwise centre distances within 1e-3 of d.
C16_TriangleClosure ==
    [][\A a \in BallIds :
          (pc = "solved" /\ ClosesTriangle(a)) =>
              /\ SolveResult.success
              /\ \A pair \in {<<a, pendingBall>>, <<a, targetBall>>, <<pendingBall, targetBall>>} :
                    Abs(DistanceTo(position'[pair[1]], position'[pair[2]]) - RequiredDistance(pendingShaft))
                        <= POSITION_TOLERANCE]_vars

\* C17: a ball whose locked flag is set is excluded from solver
\* displacement: no step of a solveConstraints call changes the position of
\* a locked ball.
C17_LockedBallKeepsPosition ==
    [][\A b \in BallIds : (CallStep /\ locked[b]) => position'[b] = position[b]]_vars

\* C18: the unanchored link state is not reachable.  After any sequence of
\* builder operations (ball clicks, shaft-end clicks, deleteShaft,
\* deleteBall, mode switches) every shaft of the builder's shaft list has its
\* start ball set.
C18_ListedShaftsAnchored ==
    \A s \in SeqToSet(shafts) : startBall[s] # NULL

\* how often shaft s is in ball b's list
Occurrences(b, s) == Cardinality({i \in DOMAIN connectedShafts[b] : connectedShafts[b][i] = s})

\* the constructed shafts ball b is the start or end ball of
AttachedTo(b) == {s \in 1..numShafts : startBall[s] = b \/ endBall[s] = b}

\* C19: the link bookkeeping is consistent under any sequence of
\* attachToStart, attachToEnd, disconnect, disconnectStart and disconnectEnd:
\* a shaft is in a ball's connected-shaft list exactly once if the ball is its
\* start or end ball and not at all otherwise, so the list's length is the
\* number of distinct shafts attached to the ball; and isFullyConnected() is
\* true exactly when both start and end are set.
C19_LinkBookkeeping ==
    /\ \A b \in BallIds, s \in ShaftIds : Occurrences(b, s) = IF s \in AttachedTo(b) THEN 1 ELSE 0
    /\ \A b \in BallIds : Len(connectedShafts[b]) = Cardinality(AttachedTo(b))
    /\ \A s \in ShaftIds : IsFullyConnected(s) <=> (startBall[s] \in BallIds /\ endBall[s] \in BallIds)

\* the step is handleShaftEndClick on shaft s: a ball is constructed and
\* becomes the end ball of s
EndClickStep(s) == pc = "idle" /\ numBalls' = numBalls + 1 /\ endBall[s] = NULL /\ endBall'[s] = numBalls'

PendingGap(ball) ==
    Abs(DistanceTo(position[pendingBall], position[ball]) - (ShaftLength(size[pendingShaft]) + BALL_RADIUS * 2))

\* a shaft is pending and the click can fall on ball, which is not the pending ball
SecondClickOn(ball) == pc = "idle" /\ pendingShaft # NULL /\ Contains(balls, ball) /\ ball # pendingBall

\* C21: direct snap.  On a second click on a ball other than the pending
\* ball, when |centre distance - (length + 2 * BALL_RADIUS)| < SNAP_TOLERANCE
\* the pending shaft is attached to that ball, the solver is not called and
\* no ball position changes; otherwise the solver path is taken.
C21_DirectSnap ==
    /\ [](\A ball \in BallIds :
            SecondClickOn(ball) =>
                /\ (ENABLED SecondClickSnap(ball)) <=> PendingGap(ball) < SNAP_TOLERANCE
                /\ (ENABLED SecondClickSolve(ball)) <=> ~(PendingGap(ball) < SNAP_TOLERANCE))
    /\ [][\A ball \in BallIds :
            SecondClickOn(ball) =>
                /\ (numBalls' = numBalls /\ endBall'[pendingShaft] = ball) =>
                       /\ PendingGap(ball) < SNAP_TOLERANCE
                       /\ pc' = "idle"
                       /\ position' = position
                /\ (pc' = "solving" /\ targetBall' = ball) => ~(PendingGap(ball) < SNAP_TOLERANCE)]_vars

\* a bound shaft is off its required distance by more than the solver leaves
\* and less than the snap accepts: it was bound by a direct snap
C21_Witness ==
    /\ pc = "idle"
    /\ \E s \in SeqToSet(shafts) :
          /\ IsFullyConnected(s)
          /\ PlacedError(position, s) > POSITION_TOLERANCE
          /\ PlacedError(position, s) < SNAP_TOLERANCE

\* C22: solveConstraints returns success exactly when the solver reported
\* converged and validatePlan accepted; every other return is a failure whose
\* message carries the measured error, and 'Missing ball states' is never
\* reported: the source and the target always have a ball state.
C22_SolveConstraintsResult ==
    /\ [](pc = "solved" =>
            LET validation == ValidatePlan(ballStates, allBalls, pendingShaft, pendingBall, targetBall)
            IN  /\ pendingBall \in DOMAIN ballStates
                /\ targetBall \in DOMAIN ballStates
                /\ SolveResult.success <=> (converged /\ validation.valid)
                /\ ~SolveResult.success =>
                       /\ SolveResult.message \in {"Cannot satisfy constraints", "New connection error", "Constraint violation"}
                       /\ SolveResult.error > 0
                       /\ ~converged => SolveResult.error = maxError
                       /\ converged => SolveResult.error = validation.error)
    /\ [][pc = "solved" =>
            LET validation == ValidatePlan(ballStates, allBalls, pendingShaft, pendingBall, targetBall)
            IN  (endBall'[pendingShaft] = targetBall) <=> (converged /\ validation.valid)]_vars

\* the solver gave up and the failure is about to be returned with its error
C22_Witness ==
    /\ pc = "solved"
    /\ ~converged
    /\ ~SolveResult.success
    /\ SolveResult.error = maxError
    /\ maxError >= POSITION_TOLERANCE * 100

\* what disconnectStart is said to leave behind on a fully connected shaft s
KeepsFormerEnd(s) ==
    /\ startBall'[s] = endBall[s]
    /\ endBall'[s] = NULL
    /\ startDirection'[s] = <<-startDirection[s][1], -startDirection[s][2]>>
    /\ ~Contains(connectedShafts'[startBall[s]], s)
    /\ Contains(connectedShafts'[endBall[s]], s)

\* what disconnectStart is said to leave behind on a shaft with only a start ball
LeavesBothUnset(s) == startBall'[s] = NULL /\ endBall'[s] = NULL

ConnectedTo(s, b) == Contains(connectedShafts[b], s) \/ startBall[s] = b \/ endBall[s] = b

\* C24: deleteBall keeps the shafts.  After deleteBall(b), b is no longer in
\* the ball list, no shaft has b as its start or end ball, and every shaft of
\* the shaft list that was connected to b is still in the shaft list.
C24_DeleteBallKeepsShafts ==
    [][\A b \in BallIds :
          DeleteBall(b) =>
              /\ ~Contains(balls', b)
              /\ \A s \in ShaftIds : startBall'[s] # b /\ endBall'[s] # b
              /\ \A s \in SeqToSet(shafts) : ConnectedTo(s, b) => Contains(shafts', s)]_vars

\* a ball is gone and a shaft that hung on it alone is still in the shaft list
C24_Witness ==
    /\ isDeleteMode
    /\ \E b \in 1..numBalls : ~Contains(balls, b)
    /\ \E s \in SeqToSet(shafts) : startBall[s] = NULL /\ endBall[s] = NULL

\* C25: deleteShaft leaves no stranded ball.  After deleteShaft the shaft is
\* detached from both balls and removed from the shaft list, and every ball
\* remaining in the ball list is the start or end ball of at least one shaft
\* remaining in the shaft list.
C25_DeleteShaftNoStrandedBall ==
    [][\A shaft \in ShaftIds :
          DeleteShaft(shaft) =>
              /\ startBall'[shaft] = NULL
              /\ endBall'[shaft] = NULL
              /\ \A b \in BallIds : ~Contains(connectedShafts'[b], shaft)
              /\ ~Contains(shafts', shaft)
              /\ \A b \in SeqToSet(balls') :
                     \E s \in SeqToSet(shafts') : startBall'[s] = b \/ endBall'[s] = b]_vars

\* the step is a mouse move of an active drag that takes the dragged ball delta
\* away from where it was on mouse-down
DragMove(delta) ==
    /\ draggedBall # NULL
    /\ isDragging'
    /\ \E distance \in PixelDistances : MouseMove(distance, delta)

\* C26: dragging is a rigid translation of one assembly.  On every mouse
\* move of an active drag the position map captured at mouse-down holds
\* exactly the balls connected to the dragged ball, each of them is set to its
\* drag-start position plus the same delta, so every pairwise distance inside
\* the assembly is what it was, and no ball outside the assembly is moved.
C26_DragIsRigidTranslation ==
    [][\A delta \in DragDeltas :
          DragMove(delta) =>
              LET assembly == Reachable({draggedBall})
              IN  /\ DOMAIN dragStartPositions = assembly
                  /\ \A b \in assembly : position'[b] = AddVectors(dragStartPositions[b], delta)
                  /\ \A a, b \in assembly :
                         /\ DistanceTo(position'[a], position'[b]) = DistanceTo(position[a], position[b])
                         /\ SubVectors(position'[a], position'[b]) = SubVectors(dragStartPositions[a], dragStartPositions[b])
                  /\ \A b \in BallIds \ assembly : position'[b] = position[b]]_vars

\* a drag is under way that has moved an assembly of two balls and left a
\* third ball where it was
C26_Witness ==
    /\ isDragging
    /\ Cardinality(DOMAIN dragStartPositions) >= 2
    /\ \A b \in DOMAIN dragStartPositions : position[b] # dragStartPositions[b]
    /\ SeqToSet(balls) \ DOMAIN dragStartPositions # {}

\* the step is a release of the button with the cursor on ball
ReleaseOnBall(ball) ==
    /\ Contains(balls, ball)
    /\ \/ \E direction \in ClickDirections, selectedShaftSize \in ShaftSizes :
             MouseUp(FirstBallClick(ball, direction, selectedShaftSize))
       \/ MouseUp(SecondClickSameBall(ball))
       \/ MouseUp(SecondClickSnap(ball))
       \/ MouseUp(SecondClickSolve(ball))

\* the step does what handleBallClick does on ball
HandledAsBallClick(ball) ==
    \/ \E direction \in ClickDirections, selectedShaftSize \in ShaftSizes :
          FirstBallClick(ball, direction, selectedShaftSize)
    \/ SecondClickSameBall(ball)
    \/ SecondClickSnap(ball)
    \/ SecondClickSolve(ball)

\* the step ends an active drag and does nothing else: nothing is created,
\* connected, deleted or moved, and no solver call is started
OnlyEndsDrag ==
    /\ ~isDragging'
    /\ draggedBall' = NULL
    /\ dragStartPositions' = <<>>
    /\ UNCHANGED <<builderVars, objectVars, solverVars>>

C28_DragExcludesPendingShaft ==
    /\ [](isDragging => (draggedBall # NULL /\ pendingShaft = NULL))
    /\ [](draggedBall # NULL => pendingShaft = NULL)
    /\ [][\A hit \in BallIds \cup {NULL} :
            (MouseDown(hit) /\ <<draggedBall, dragStartPositions>>' # <<draggedBall, dragStartPositions>>) =>
                (hit # NULL /\ pendingShaft = NULL)]_vars

\* a drag is under way in a structure that has a shaft
C28_Witness ==
    /\ isDragging
    /\ draggedBall # NULL
    /\ pendingShaft = NULL
    /\ shafts # <<>>

\* C29: in the build with a delete mode, entering delete mode cancels any
\* pending shaft (it leaves the shaft list, pendingShaft and pendingBall are
\* cleared), and while delete mode is on no click builds: no shaft is
\* constructed, none becomes pending and no solver call is started.  So
\* pendingShaft is null in every reachable state where isDeleteMode is true.
C29_DeleteModeHasNoPendingShaft ==
    /\ [](isDeleteMode => (pendingShaft = NULL /\ pendingBall = NULL))
    /\ [][(SetDeleteMode(TRUE) /\ pendingShaft # NULL) =>
            /\ ~Contains(shafts', pendingShaft)
            /\ pendingShaft' = NULL
            /\ pendingBall' = NULL]_vars
    /\ [][isDeleteMode => (numShafts' = numShafts /\ pendingShaft' = NULL /\ pc' = "idle")]_vars

\* delete mode is on and the shaft that was pending when it was entered is
\* out of the shaft list
C29_Witness ==
    /\ isDeleteMode
    /\ pendingShaft = NULL
    /\ \E s \in 1..numShafts : ~Contains(shafts, s) /\ startBall[s] # NULL /\ endBall[s] = NULL

\* the saved start and end index of the shaft at place j of the shaft list
StartIndexOf(j) == IF startBall[shafts[j]] # NULL THEN IndexOf(balls, startBall[shafts[j]]) ELSE 0

EndIndexOf(j) == IF endBall[shafts[j]] # NULL THEN IndexOf(balls, endBall[shafts[j]]) ELSE 0

\* C30: save/load round trip.  deserializeStructure applied to the result of
\* serializeStructure rebuilds the same number of balls at the same
\* positions and, for every shaft of the original shaft list, a shaft of the
\* same size with the same start-ball index and end-ball index.
C30_SaveLoadRoundTrip ==
    [][Reload =>
          /\ Len(balls') = Len(balls)
          /\ \A i \in DOMAIN balls : position'[balls'[i]] = position[balls[i]]
          /\ \A j \in DOMAIN shafts :
                 \E k \in DOMAIN shafts' :
                     /\ size'[shafts'[k]] = size[shafts[j]]
                     /\ StartIndexOf(k)' = StartIndexOf(j)
                     /\ EndIndexOf(k)' = EndIndexOf(j)]_vars

\* ball2's candidate seen from ball1's, before and after constraint c alone
\* is applied to the plan of the running call
PairBefore(c) == SubVectors(ballStates[c.ball2].newPosition, ballStates[c.ball1].newPosition)

PairAfter(c) == SubVectors(After(c)[c.ball2].newPosition, After(c)[c.ball1].newPosition)

\* the constraints solve corrects whose balls are not at one point
CorrectedApart == {i \in Corrected : Length(PairBefore(constraints[i])) >= COINCIDENT_DIST}

\* C31: one constraint correction halves that constraint's error and never
\* overshoots.  For a non-coincident pair with error e = dist - required and
\* |e| > POSITION_TOLERANCE, the pair closes (e > 0) or opens (e < 0) by e / 2
\* along the line joining the balls, to the rounding of the unit direction, so
\* the distance afterwards is dist - e / 2, strictly between dist and
\* required; the amount does not depend on the two masses.
C31_CorrectionHalvesError ==
    pc = "solving" =>
        \A i \in CorrectedApart :
            \A before \in {PairBefore(constraints[i])}, after \in {PairAfter(constraints[i])} :
                \A dist \in {Length(before)}, distAfter \in {Length(after)} :
                    LET c == constraints[i]
                        e == dist - c.distance
                        delta == Normalize(before)
                        closing == SubVectors(before, after)
                    IN  /\ \A k \in 1..2 : Abs(closing[k] * DIR_ONE * RELAXATION_DIV - delta[k] * e) <= DIR_ONE * RELAXATION_DIV * 2
                        /\ \A k \in 1..2 : (before[k] >= 0 => after[k] >= 0)
                        /\ \A k \in 1..2 : (before[k] <= 0 => after[k] <= 0)
                        /\ Abs(distAfter - (dist - DivR(e, RELAXATION_DIV))) <= POSITION_TOLERANCE
                        /\ e > 0 => (distAfter < dist /\ distAfter > c.distance)
                        /\ e < 0 => (distAfter > dist /\ distAfter < c.distance)
                        /\ \A m1, m2 \in 1..(MaxSceneShafts + 1) :
                               Abs(RELAXATION_DIV * (Correction1(e, m1, m2) + Correction2(e, m1, m2)) - e) <= RELAXATION_DIV

\* a call is about to push apart two balls of different mass that are too close
C31_Witness ==
    /\ pc = "solving"
    /\ \E i \in CorrectedApart :
          /\ ErrorOf(constraints[i]) < 0
          /\ ballStates[constraints[i].ball1].mass # ballStates[constraints[i].ball2].mass
          /\ PairAfter(constraints[i]) # PairBefore(constraints[i])

\* C32: pending-state invariant of the builder. pendingShaft is null exactly
\* when pendingBall is null, and a pending shaft is in the shaft list, starts
\* at pendingBall and has no end ball.
C32_PendingState ==
    /\ pendingShaft = NULL <=> pendingBall = NULL
    /\ pendingShaft # NULL =>
           /\ Contains(shafts, pendingShaft)
           /\ startBall[pendingShaft] = pendingBall
           /\ endBall[pendingShaft] = NULL

\* a shaft is pending while another shaft of the list is complete
C32_Witness ==
    /\ pendingShaft # NULL
    /\ pendingBall # NULL
    /\ \E i \in DOMAIN shafts : shafts[i] # pendingShaft /\ endBall[shafts[i]] # NULL

\* solve returned from inside its loop
EarlyStop == pc = "solved" /\ iter < MAX_ITERATIONS

\* validatePlan's verdict on the plan solve left
PlanCheck == ValidatePlan(ballStates, allBalls, pendingShaft, pendingBall, targetBall)

\* C33: validation can only fail on the degraded path. A pass after which
\* solve stops early reports converged, changed no candidate position and
\* leaves every error below the tolerance, so validatePlan accepts the
\* plan; a plan that converged and is rejected was returned after the
\* iteration budget ran out.
C33_EarlyStopIsAccepted ==
    [][/\ (SolvePass /\ EarlyStop') =>
              /\ converged'
              /\ maxError' < POSITION_TOLERANCE
              /\ \A b \in DOMAIN ballStates : ballStates'[b].newPosition = ballStates[b].newPosition
              /\ PlanCheck'.valid
       /\ (pc' = "solved" /\ converged' /\ ~PlanCheck'.valid) => iter' = MAX_ITERATIONS]_vars

\* solve stopped early after passes that moved the candidates
C33_Witness ==
    /\ EarlyStop
    /\ converged
    /\ iter > 0
    /\ \E b \in DOMAIN ballStates : ballStates[b].newPosition # ballStates[b].originalPosition

\* C34: no ball keeps a reference to a removed shaft. Every shaft in the
\* connected-shaft list of a ball of the builder is in the builder's shaft
\* list, also after a failed connection attempt or a cancelled pending shaft.
C34_NoStaleShaftReference ==
    pc = "idle" =>
        \A i \in DOMAIN balls :
            \A j \in DOMAIN connectedShafts[balls[i]] :
                Contains(shafts, connectedShafts[balls[i]][j])

\* no constrained pair is at one point when the coming pass measures it
NoCoincidentPair == ~Pass(ballStates, constraints, <<DIR_ONE, 0>>).nudged

====
